---- MODULE Spec2Model ----
(***************************************************************************)
(* A state-machine model of the simulation kernels of the complex-systems  *)
(* visualizer (sim-core) and of the host frame loop (sim-app).             *)
(*                                                                         *)
(* The kernels are independent objects; the host shows one of them at a    *)
(* time.  Every kernel family has its own group of variables, its own      *)
(* initial condition and next-state relation, and its own specification    *)
(* (SpecTrail, SpecGrid, ...).  In the specification of one family the     *)
(* variables of the other families are parked at a fixed value.            *)
(*                                                                         *)
(* Real-valued quantities are modelled in fixed point.  A frame delta is a *)
(* whole number of ticks, and an accumulator holds AccOne units per 1.0.   *)
(* Slider ranges and grid sizes are scaled down; every scaled quantity is  *)
(* a named bound, every number taken literally from the code is a named    *)
(* program constant.                                                       *)
(***************************************************************************)
EXTENDS Integers, Naturals, Sequences, FiniteSets, TLC

VARIABLES
    op,            \* the operation that ran last (history of the call sequence)
    panicked,      \* TRUE once a call has aborted (index out of bounds, empty range, overflow)
    advanced,      \* number of step calls the last operation made
    overflow_checks, \* build profile: TRUE when integer overflow aborts (debug), FALSE when it wraps
    sim_type,      \* "TwoD" or "ThreeD": which viewer the host shows
    sim_2d,        \* the raster kernel the host shows (simulations_2d[sim_2d_index])
    sim_3d,        \* the point-cloud kernel the host shows (simulations_3d[sim_3d_index])
    viewer,        \* Viewer2D: needs_update, width, height; computes and asked: the last show
    \* ---- point-cloud kernels that keep a trail
    current,       \* seed/current position of every integrated body
    points,        \* the trail of every integrated body (oldest first)
    time,          \* accumulated time (Aizawa)
    trail_length,  \* the trail cap (max_points / trail_length)
    show_trails,   \* N-body: trails are recorded
    trail_log,     \* history: the points an ODE attractor pushed since new()/reset() (the
                   \* latest LogWindow of them), and whether the cap was left alone since
    twin,          \* a second ODE attractor built the same way, the calls it has yet to
                   \* receive, and clock: the state of the world outside both instances
    \* ---- Cyclic cellular automaton (cyclic_ca.rs)
    cca_grid_width,
    cca_grid_height,
    cca_num_states,
    cca_threshold,
    cca_neighborhood,
    cca_speed,
    cca_grid,          \* Vec<u8>, cell (x, y) at index y*grid_width + x (0-based)
    cca_next_grid,
    cca_acc,           \* time_accumulator, AccOne units per 1.0
    \* ---- one record per kernel object, its fields under their source names
    sandpile,      \* Sandpile, and phase: where ui_parameters / drop_sand / avalanche stands
    ant,           \* LangtonsAnt
    life,          \* GameOfLife
    fsand,         \* FallingSand, and reread: the last pass touched a cell it had written
    vortex,        \* VortexTurbulence
    perlin,        \* PerlinFlow
    boids,         \* Boids
    sph,           \* FluidSPH, and moved_by / clamp: the speed the last step moved a particle by
    raster,        \* the escape-time / double-pendulum compute call: canvas, row tasks, returned buffer
    nbody,  \* NBodyGravity, and forces, what the last compute_forces call returned
    pattr,  \* ParticleAttractor3D
    dla,  \* DLA
    fractal   \* the view of the Mandelbrot / Burning Ship kernel (zoom)

trailVars == <<current, points, time, trail_length, show_trails, trail_log, twin>>

selVars == <<sim_type, sim_2d, sim_3d, overflow_checks>>

hostVars == <<op, panicked, advanced, selVars, viewer>>

ccaVars == <<cca_grid_width, cca_grid_height, cca_num_states, cca_threshold,
             cca_neighborhood, cca_speed, cca_grid, cca_next_grid, cca_acc>>

vars == <<hostVars, trailVars, ccaVars, sandpile, ant, life, fsand, vortex, perlin, boids, sph, raster,
    nbody, pattr, dla, fractal>>

\* What the operations of one kernel leave alone: the host's selection and
\* every other kernel.
NotTrail == <<selVars, viewer, ccaVars, sandpile, ant, life, fsand, vortex, perlin, boids, sph, raster,
    nbody, pattr, dla, fractal>>

NotCca == <<selVars, viewer, trailVars, sandpile, ant, life, fsand, vortex, perlin, boids, sph, raster,
    nbody, pattr, dla, fractal>>

NotSandpile == <<selVars, viewer, trailVars, ccaVars, ant, life, fsand, vortex, perlin, boids, sph, raster,
    nbody, pattr, dla, fractal>>

NotAnt == <<selVars, viewer, trailVars, ccaVars, sandpile, life, fsand, vortex, perlin, boids, sph, raster,
    nbody, pattr, dla, fractal>>

NotLife == <<selVars, viewer, trailVars, ccaVars, sandpile, ant, fsand, vortex, perlin, boids, sph, raster,
    nbody, pattr, dla, fractal>>

NotFsand == <<selVars, viewer, trailVars, ccaVars, sandpile, ant, life, vortex, perlin, boids, sph, raster,
    nbody, pattr, dla, fractal>>

NotVortex == <<selVars, viewer, trailVars, ccaVars, sandpile, ant, life, fsand, perlin, boids, sph, raster,
    nbody, pattr, dla, fractal>>

NotPerlin == <<selVars, viewer, trailVars, ccaVars, sandpile, ant, life, fsand, vortex, boids, sph, raster,
    nbody, pattr, dla, fractal>>

NotBoids == <<selVars, viewer, trailVars, ccaVars, sandpile, ant, life, fsand, vortex, perlin, sph, raster,
    nbody, pattr, dla, fractal>>

NotSph == <<selVars, viewer, trailVars, ccaVars, sandpile, ant, life, fsand, vortex, perlin, boids, raster,
    nbody, pattr, dla, fractal>>

NotRaster == <<selVars, viewer, trailVars, ccaVars, sandpile, ant, life, fsand, vortex, perlin, boids, sph,
    nbody, pattr, dla, fractal>>

(***************************************************************************)
(* Generic helpers                                                         *)
(***************************************************************************)
Min(a, b) == IF a < b THEN a ELSE b

Max(a, b) == IF a > b THEN a ELSE b

\* Vec::remove(0): drops the oldest element, keeps the order of the rest.
RemoveFirst(s) == Tail(s)

(***************************************************************************)
(* Point-cloud kernels with a trail: Lorenz / Rossler (one RK4 step and    *)
(* one push per step call), Aizawa / Halvorsen / Dadras / Thomas / Chen    *)
(* (ten Euler substeps, one push each), N-body / magnetic field / vortex   *)
(* (one push per moving body per step, when show_trails is set).           *)
(*                                                                         *)
(* A position is a point of a finite ring; integrating over h ticks moves  *)
(* the position h places along the orbit.                                  *)
(***************************************************************************)
PosRing == 7         \* number of distinct positions of the modelled orbit
MaxDt == 2           \* largest frame delta, in ticks
CapMin == 1          \* trail cap slider, low end   (source: 100, N-body 10)
CapMax == 3          \* trail cap slider, high end  (source: 10000, N-body 200)
PrePopulate == 2     \* steps RosslerAttractor::new runs (source: 500)
MaxTime == 4         \* the model stops advancing Aizawa's clock here
SubSteps == 10       \* substeps of one Aizawa step call
AizawaScale == 50    \* Aizawa's default scale factor
Seed == 1            \* the seed position [0.1, 0, 0]
NewDt == 1           \* the 0.016 s delta RosslerAttractor::new steps with
AizawaDt == 1        \* Aizawa's internal dt field (0.01), in ticks
ThomasSubSteps == 10 \* substeps of one Thomas step call
ThomasScale == 80    \* Thomas's default scale factor
ThomasDt == 1        \* Thomas's internal dt field (0.1), in ticks

TrailKernels == {"Lorenz", "Rossler", "Aizawa", "Thomas", "NBody"}

\* The attractors that integrate one ODE and keep its trail in points.
OdeKernels == {"Lorenz", "Rossler", "Aizawa", "Thomas"}

Dts == 1..MaxDt

Caps == CapMin..CapMax

\* The ODE right-hand side integrated over h ticks from position p.
Integrate(p, h) == (p + h) % PosRing

\* points.push(p); if points.len() > cap { points.remove(0); }
PushTrailSingleEvict(trail, p, cap) ==
    LET pushed == Append(trail, p)
    IN  IF Len(pushed) > cap THEN RemoveFirst(pushed) ELSE pushed

\* A push that, on a full trail, drops the new point instead of the oldest.
PushTrailDropNewest(trail, p, cap) ==
    IF Len(trail) >= cap THEN trail ELSE Append(trail, p)

PushTrail(trail, p, cap) == PushTrailSingleEvict(trail, p, cap)

\* LorenzAttractor::step / RosslerAttractor::step on (current, points).
RkStep(cur, trail, dt, cap) ==
    LET nxt == Integrate(cur, dt)
    IN  [current |-> nxt, points |-> PushTrail(trail, nxt, cap)]

\* n consecutive RkStep calls with the same dt.
RECURSIVE RkSteps(_, _, _, _, _)
RkSteps(cur, trail, dt, cap, n) ==
    IF n = 0 THEN [current |-> cur, points |-> trail]
    ELSE LET r == RkStep(cur, trail, dt, cap)
         IN  RkSteps(r.current, r.points, dt, cap, n - 1)

\* The body of AizawaAttractor::step's loop, n times: Euler substep with the
\* internal dt, push of the scaled position, single eviction.
RECURSIVE EulerSubSteps(_, _, _, _)
EulerSubSteps(cur, trail, cap, n) ==
    IF n = 0 THEN [current |-> cur, points |-> trail]
    ELSE LET nxt == Integrate(cur, AizawaDt)
         IN  EulerSubSteps(nxt, PushTrail(trail, nxt * AizawaScale, cap), cap, n - 1)

\* The body of ThomasAttractor::step's loop, n times: Euler substep with the
\* internal dt, push of the scaled position, single eviction.
RECURSIVE ThomasSubStepLoop(_, _, _, _)
ThomasSubStepLoop(cur, trail, cap, n) ==
    IF n = 0 THEN [current |-> cur, points |-> trail]
    ELSE LET nxt == Integrate(cur, ThomasDt)
         IN  ThomasSubStepLoop(nxt, PushTrail(trail, nxt * ThomasScale, cap), cap, n - 1)

DefaultCap == CapMax

\* The history keeps the latest LogWindow pushes: one more than any cap.
LogWindow == CapMax + 1

\* The last n elements of s (all of s if it is shorter).
LastN(s, n) == IF Len(s) <= n THEN s ELSE SubSeq(s, Len(s) - n + 1, Len(s))

\* The history after pushes: all is the history followed by the new pushes.
LogOf(all, held) == [pushed |-> LastN(all, LogWindow), cap_held |-> held]

\* The same step as OdeStep, started from where the world's clock puts it.
OdeStepReadingClock(k, cur, trail, dt, cap) ==
    LET from == (cur + twin.clock) % PosRing
    IN  CASE k = "Aizawa" -> EulerSubSteps(from, trail, cap, SubSteps)
          [] k = "Thomas" -> ThomasSubStepLoop(from, trail, cap, ThomasSubSteps)
          [] OTHER -> RkStep(from, trail, dt, cap)

\* One step call of ODE kernel k on (cur, trail) under the cap: what
\* Simulation3D::step does to the position and the trail.
OdeStep(k, cur, trail, dt, cap) ==
    CASE k = "Aizawa" -> EulerSubSteps(cur, trail, cap, SubSteps)
      [] k = "Thomas" -> ThomasSubStepLoop(cur, trail, cap, ThomasSubSteps)
      [] OTHER -> RkStep(cur, trail, dt, cap)

\* The pushes of that step call, appended to the sequence all and never
\* evicted: the cap is out of reach.
OdePushes(k, cur, all, dt) ==
    OdeStep(k, cur, all, dt, Len(all) + SubSteps + ThomasSubSteps + 1).points

\* Default::default() of each kernel: seed position, empty trail, time 0.
DefaultState(k) ==
    IF k = "NBody"
    THEN [current |-> <<0, Seed>>, points |-> <<<<>>, <<>>>>, time |-> 0]
    ELSE [current |-> <<Seed>>, points |-> <<<<>>>>, time |-> 0]

\* new(): Default for every kernel; Rossler then runs PrePopulate steps.
NewState(k) ==
    IF k = "Rossler"
    THEN LET r == RkSteps(Seed, <<>>, NewDt, DefaultCap, PrePopulate)
         IN  [current |-> <<r.current>>, points |-> <<r.points>>, time |-> 0]
    ELSE DefaultState(k)

\* Calls the second instance may be behind the first by.
MaxLag == 1
\* Distinct states of the world outside the instances (wall clock, thread RNG).
ClockRing == 2

\* No second instance.
TwinIdle ==
    [live |-> FALSE, current |-> 0, points |-> <<>>, time |-> 0, trail_length |-> 0,
     pending |-> <<>>, clock |-> 0]

\* new() of the second instance of kernel k.
TwinNew(k) ==
    [live |-> TRUE, current |-> NewState(k).current[1], points |-> NewState(k).points[1],
     time |-> NewState(k).time, trail_length |-> DefaultCap, pending |-> <<>>, clock |-> 0]

TwinReady == twin.live => Len(twin.pending) < MaxLag

\* The driver hands the call it made on the first instance, and the
\* get_points() it saw after it, on to the second; the world moves on.
TwinCalled(call, arg, seen) ==
    IF twin.live
    THEN [twin EXCEPT !.pending = Append(@, [call |-> call, arg |-> arg, seen |-> seen]),
                      !.clock = (@ + 1) % ClockRing]
    ELSE twin

TrailInit ==
    /\ sim_3d \in TrailKernels
    /\ current = NewState(sim_3d).current
    /\ points = NewState(sim_3d).points
    /\ time = NewState(sim_3d).time
    /\ trail_length = DefaultCap
    /\ show_trails = TRUE
    /\ trail_log = LogOf(IF sim_3d \in OdeKernels THEN NewState(sim_3d).points[1] ELSE <<>>,
                         TRUE)

\* Simulation3D::step(dt) of the instance.
TrailStep(dt) ==
    /\ ~panicked
    /\ \/ /\ sim_3d \in {"Lorenz", "Rossler"}
          /\ LET r == RkStep(current[1], points[1], dt, trail_length)
             IN  /\ current' = <<r.current>>
                 /\ points' = <<r.points>>
          /\ time' = time
       \/ /\ sim_3d = "Aizawa"
          /\ time + dt <= MaxTime
          /\ time' = time + dt
          /\ LET r == EulerSubSteps(current[1], points[1], trail_length, SubSteps)
             IN  /\ current' = <<r.current>>
                 /\ points' = <<r.points>>
       \/ /\ sim_3d = "Thomas"
          /\ LET r == ThomasSubStepLoop(current[1], points[1], trail_length, ThomasSubSteps)
             IN  /\ current' = <<r.current>>
                 /\ points' = <<r.points>>
          /\ time' = time
       \/ /\ sim_3d = "NBody"
          \* body 0 (index 1 here) is skipped; every other body moves and,
          \* when show_trails is set, records its new position
          /\ LET nxt == Integrate(current[2], dt)
             IN  /\ current' = <<current[1], nxt>>
                 /\ points' = <<points[1],
                                IF show_trails
                                THEN PushTrail(points[2], nxt, trail_length)
                                ELSE points[2]>>
          /\ time' = time
    /\ trail_log' = IF sim_3d \in OdeKernels
                    THEN LogOf(OdePushes(sim_3d, current[1], trail_log.pushed, dt),
                               trail_log.cap_held)
                    ELSE trail_log
    /\ op' = "step"
    /\ advanced' = 1
    /\ TwinReady
    /\ twin' = TwinCalled("step", dt, points'[1])
    /\ UNCHANGED <<panicked, NotTrail, trail_length, show_trails>>

\* The host drags the trail-length slider to v.
SetTrailLength(v) ==
    /\ ~panicked
    /\ v /= trail_length
    /\ trail_length' = v
    /\ trail_log' = [trail_log EXCEPT !.cap_held = FALSE]
    /\ op' = "set_trail_length"
    /\ advanced' = 0
    /\ TwinReady
    /\ twin' = TwinCalled("set_trail_length", v, points[1])
    /\ UNCHANGED <<panicked, NotTrail, current, points, time, show_trails>>

\* The host ticks the "Show Trails" checkbox (N-body).
ToggleShowTrails ==
    /\ ~panicked
    /\ sim_3d = "NBody"
    /\ show_trails' = ~show_trails
    /\ op' = "toggle_show_trails"
    /\ advanced' = 0
    /\ UNCHANGED <<panicked, NotTrail, current, points, time, trail_length, trail_log, twin>>

\* Simulation3D::reset() of the ODE attractors: clear the trail, restore the
\* seed position; nothing else is written.
TrailReset ==
    /\ ~panicked
    /\ sim_3d \in OdeKernels
    /\ points' = <<<<>>>>
    /\ current' = <<Seed>>
    /\ trail_log' = LogOf(<<>>, TRUE)
    /\ op' = "reset"
    /\ advanced' = 0
    /\ TwinReady
    /\ twin' = TwinCalled("reset", 0, <<>>)
    /\ UNCHANGED <<panicked, NotTrail, time, trail_length, show_trails>>

\* One call on the second instance: c is the call, made some time after the
\* first instance received it.  step, the trail-length slider, reset.
TwinCall(c) ==
    CASE c.call = "step" ->
           LET r == OdeStep(sim_3d, twin.current, twin.points, c.arg, twin.trail_length)
           IN  [twin EXCEPT !.current = r.current, !.points = r.points,
                            !.time = IF sim_3d = "Aizawa" THEN @ + c.arg ELSE @]
      [] c.call = "set_trail_length" -> [twin EXCEPT !.trail_length = c.arg]
      [] OTHER -> [twin EXCEPT !.points = <<>>, !.current = Seed]

\* The second instance receives the oldest call it is behind by.
TwinReplay ==
    /\ ~panicked
    /\ twin.live
    /\ twin.pending /= <<>>
    /\ twin' = [TwinCall(Head(twin.pending)) EXCEPT !.pending = Tail(@),
                                                    !.clock = (@ + 1) % ClockRing]
    /\ op' = "replay"
    /\ advanced' = IF Head(twin.pending).call = "step" THEN 1 ELSE 0
    /\ UNCHANGED <<panicked, NotTrail, current, points, time, trail_length, show_trails,
                   trail_log>>

\* Two instances of one ODE attractor driven with the same calls.
TwinNext ==
    \/ \E dt \in Dts : TrailStep(dt)
    \/ \E v \in Caps : SetTrailLength(v)
    \/ TrailReset
    \/ TwinReplay

TrailNext ==
    \/ \E dt \in Dts : TrailStep(dt)
    \/ \E v \in Caps : SetTrailLength(v)
    \/ ToggleShowTrails
    \/ TrailReset


(***************************************************************************)
(* Random numbers.  A call sequence on thread_rng() is modelled by a seed  *)
(* drawn from a small set; the k-th sample of range 0..n is a digit of the *)
(* seed.                                                                   *)
(***************************************************************************)
MaxSeed == 2         \* seeds are 0..MaxSeed

Seeds == 0..MaxSeed

\* The k-th (0-based) sample of rng.gen_range(0..n) under seed.
Sample(seed, k, n) == (seed * (k + 1) + (k * k) \div 2) % n

(***************************************************************************)
(* Frame time.  time_accumulator += dt * speed; while it is >= 1.0 a step  *)
(* runs and 1.0 is taken off.                                              *)
(***************************************************************************)
AccOne == 2          \* accumulator units per 1.0

\* A loop that makes one step call whatever the accumulator holds.
LoopOnce(acc) == 1

\* Number of iterations of `while acc >= 1.0 { ...; acc -= 1.0 }`.
LoopCount(acc) == acc \div AccOne

\* The accumulator after that loop.
LoopRest(acc) == acc % AccOne

(***************************************************************************)
(* Cyclic cellular automaton                                               *)
(***************************************************************************)
CcaWMin == 2         \* grid width slider, low end    (source: 50)
CcaWMax == 3         \* grid width slider, high end   (source: 400)
CcaHMin == 2         \* grid height slider, low end   (source: 50)
CcaHMax == 3         \* grid height slider, high end  (source: 300)
CcaStatesMin == 3    \* number-of-states slider, low end
CcaStatesMax == 4    \* number-of-states slider, high end (source: 24)
CcaThresholdMin == 1 \* threshold slider, low end
CcaThresholdMax == 2 \* threshold slider, high end (source: 8)
CcaSpeed == 1        \* the speed the model runs at, in accumulator units per tick
CanvasMax == 3       \* largest canvas edge the viewer asks for, in pixels

\* The default grid (source: 200 x 150, inside the slider ranges).
CcaDefaultW == CcaWMin

CcaDefaultH == CcaHMin

\* The canvas edges the viewer asks for.
Canvas == 1..CanvasMax

Neighborhoods == {"VonNeumann", "Moore", "Extended"}

\* Neighborhood::get_offsets
get_offsets(nb) ==
    CASE nb = "VonNeumann" -> << <<0, -1>>, <<1, 0>>, <<0, 1>>, <<-1, 0>> >>
      [] nb = "Moore" ->
            << <<-1, -1>>, <<0, -1>>, <<1, -1>>, <<-1, 0>>, <<1, 0>>,
               <<-1, 1>>, <<0, 1>>, <<1, 1>> >>
      [] nb = "Extended" ->
            << <<-1, -1>>, <<0, -1>>, <<1, -1>>, <<-1, 0>>, <<1, 0>>,
               <<-1, 1>>, <<0, 1>>, <<1, 1>>,
               <<0, -2>>, <<2, 0>>, <<0, 2>>, <<-2, 0>> >>

\* nidx of CyclicCA::step: the toroidal neighbour of (x, y) at offset d.
CcaNeighborIdx(x, y, d, w, h) ==
    ((y + d[2] + h) % h) * w + ((x + d[1] + w) % w)

\* The indices of self.grid that the update of cell idx reads.
CcaReads(idx, w, h, offs) ==
    {idx} \cup {CcaNeighborIdx(idx % w, idx \div w, offs[k], w, h) : k \in 1..Len(offs)}

\* A cell update that advances only when more than threshold neighbours are
\* in the next state.
CcaCellValueAbove(g, idx, w, h, ns, thr, offs) ==
    LET current_state == g[idx + 1]
        next_state == (current_state + 1) % ns
        count == Cardinality({k \in 1..Len(offs) :
                     g[CcaNeighborIdx(idx % w, idx \div w, offs[k], w, h) + 1] = next_state})
    IN  IF count > thr THEN next_state ELSE current_state

\* The value CyclicCA::step computes for cell idx from the grid g it reads.
CcaCellValue(g, idx, w, h, ns, thr, offs) ==
    LET current_state == g[idx + 1]
        next_state == (current_state + 1) % ns
        count == Cardinality({k \in 1..Len(offs) :
                     g[CcaNeighborIdx(idx % w, idx \div w, offs[k], w, h) + 1] = next_state})
    IN  IF count >= thr THEN next_state ELSE current_state

\* A bug this model is checked against: the cell is written into the grid
\* that is being read.
CcaWriteCellInPlace(st, idx, val) ==
    [grid |-> [st.grid EXCEPT ![idx + 1] = val],
     next |-> [st.next EXCEPT ![idx + 1] = val]]

\* self.next_grid[idx] = ...: the write of one cell; self.grid is untouched.
\* st is the pair of buffers [grid, next].
CcaWriteCell(st, idx, val) ==
    [grid |-> st.grid, next |-> [st.next EXCEPT ![idx + 1] = val]]

\* The double loop of CyclicCA::step from cell idx on, in row-major order.
\* The result has ok = FALSE when an index is out of bounds (the call panics).
RECURSIVE CcaSweep(_, _, _, _, _, _, _)
CcaSweep(st, idx, w, h, ns, thr, offs) ==
    IF idx >= w * h THEN [ok |-> TRUE, grid |-> st.grid, next |-> st.next]
    ELSE IF \E i \in CcaReads(idx, w, h, offs) : i >= Len(st.grid)
         THEN [ok |-> FALSE, grid |-> st.grid, next |-> st.next]
         ELSE CcaSweep(CcaWriteCell(st, idx,
                           CcaCellValue(st.grid, idx, w, h, ns, thr, offs)),
                       idx + 1, w, h, ns, thr, offs)

\* std::mem::swap(&mut self.grid, &mut self.next_grid)
CcaSwap(st) == [grid |-> st.next, next |-> st.grid]

\* CyclicCA::step on st = [ok, grid, next, done]: the sweep, then the swap;
\* done counts the calls that returned.
CcaStepOnce(st, w, h, ns, thr, nb) ==
    LET r == CcaSweep([grid |-> st.grid, next |-> st.next], 0, w, h, ns, thr,
                      get_offsets(nb))
        sw == CcaSwap(r)
    IN  IF r.ok
        THEN [ok |-> TRUE, grid |-> sw.grid, next |-> sw.next, done |-> st.done + 1]
        ELSE [ok |-> FALSE, grid |-> r.grid, next |-> r.next, done |-> st.done]

\* `while self.time_accumulator >= 1.0 { self.step(); ... }` with n iterations
\* to go; a call that panics ends the loop.
RECURSIVE CcaSteps(_, _, _, _, _, _, _)
CcaSteps(st, n, w, h, ns, thr, nb) ==
    IF n = 0 \/ ~st.ok THEN st
    ELSE CcaSteps(CcaStepOnce(st, w, h, ns, thr, nb), n - 1, w, h, ns, thr, nb)

\* CyclicCA::reset's fill: every cell of the existing grid gets a fresh sample
\* of 0..num_states.  The grid keeps its length.
CcaRandomFill(len, ns, seed) == [i \in 1..len |-> Sample(seed, i - 1, ns)]

\* reset_with_seed("stripes"): fill(0), then cell (x, y) = x*num_states/width.
CcaStripes(len, w, h, ns) ==
    IF w * h > len THEN [ok |-> FALSE, grid |-> [i \in 1..len |-> 0]]
    ELSE [ok |-> TRUE,
          grid |-> [i \in 1..len |->
                      IF i <= w * h THEN (((i - 1) % w) * ns) \div w ELSE 0]]

\* reset_with_seed("corners"): one state per quadrant.
CcaCorners(len, w, h, ns) ==
    IF w * h > len THEN [ok |-> FALSE, grid |-> [i \in 1..len |-> 0]]
    ELSE [ok |-> TRUE,
          grid |-> [i \in 1..len |->
                      IF i > w * h THEN 0
                      ELSE LET x == (i - 1) % w
                               y == (i - 1) \div w
                           IN  IF x < w \div 2 /\ y < h \div 2 THEN 0
                               ELSE IF x >= w \div 2 /\ y < h \div 2 THEN ns \div 4
                               ELSE IF x < w \div 2 /\ y >= h \div 2 THEN ns \div 2
                               ELSE (ns * 3) \div 4]]

\* The grid indices compute(width, height) reads on a grid of w x h cells
\* (the same raster loop in CyclicCA, Sandpile, LangtonsAnt and GameOfLife).
GridComputeReads(width, height, w, h) ==
    LET cell_width == Max(width \div w, 1)
        cell_height == Max(height \div h, 1)
    IN  {(py \div cell_height) * w + (px \div cell_width) :
            <<px, py>> \in {q \in (0..(width - 1)) \X (0..(height - 1)) :
                              /\ q[1] \div cell_width < w
                              /\ q[2] \div cell_height < h}}

CcaInit ==
    /\ cca_grid_width = CcaDefaultW
    /\ cca_grid_height = CcaDefaultH
    /\ cca_num_states = CcaStatesMin
    /\ cca_threshold = CcaThresholdMax
    /\ cca_neighborhood = "Moore"
    /\ cca_speed = CcaSpeed
    /\ \E seed \in Seeds :
          cca_grid = CcaRandomFill(CcaDefaultW * CcaDefaultH, CcaStatesMin, seed)
    /\ cca_next_grid = [i \in 1..(CcaDefaultW * CcaDefaultH) |-> 0]
    /\ cca_acc = 0

\* The variables of a kernel the specification at hand does not run.
CcaParked ==
    /\ cca_grid_width = 0
    /\ cca_grid_height = 0
    /\ cca_num_states = 0
    /\ cca_threshold = 0
    /\ cca_neighborhood = "Moore"
    /\ cca_speed = 0
    /\ cca_grid = <<>>
    /\ cca_next_grid = <<>>
    /\ cca_acc = 0

\* The rest of CyclicCA::ui_parameters once the widgets have been handled:
\* the parameters are (w, h, ns, thr, nb, sp), the grid is g, the accumulator
\* is acc, and evOk says whether the widget handlers returned.  Auto-stepping
\* then runs step while the accumulator is >= 1.0.
CcaFinishFrame(name, evOk, g, acc, w, h, ns, thr, nb, sp, dt) ==
    \E r \in {CcaSteps([ok |-> evOk, grid |-> g, next |-> cca_next_grid, done |-> 0],
                       LoopCount(acc + dt * sp), w, h, ns, thr, nb)} :
        /\ op' = name
        /\ cca_grid_width' = w
        /\ cca_grid_height' = h
        /\ cca_num_states' = ns
        /\ cca_threshold' = thr
        /\ cca_neighborhood' = nb
        /\ cca_speed' = sp
        /\ panicked' = ~r.ok
        /\ cca_grid' = r.grid
        /\ cca_next_grid' = r.next
        /\ cca_acc' = IF r.ok THEN LoopRest(acc + dt * sp) ELSE acc
        /\ advanced' = r.done
        /\ UNCHANGED NotCca

CcaLive == ~panicked /\ sim_2d = "CyclicCA"

\* A frame in which no widget of the panel is used.
CcaFrame(dt) ==
    /\ CcaLive
    /\ CcaFinishFrame("cca_frame", TRUE, cca_grid, cca_acc, cca_grid_width,
                      cca_grid_height, cca_num_states, cca_threshold,
                      cca_neighborhood, cca_speed, dt)

\* "Number of States" slider moved to v: reset().
CcaSetNumStates(v, seed, dt) ==
    /\ CcaLive
    /\ v /= cca_num_states
    /\ CcaFinishFrame("cca_set_num_states", TRUE,
                      CcaRandomFill(Len(cca_grid), v, seed), 0, cca_grid_width,
                      cca_grid_height, v, cca_threshold, cca_neighborhood,
                      cca_speed, dt)

\* "Threshold" slider moved to v.
CcaSetThreshold(v, dt) ==
    /\ CcaLive
    /\ v /= cca_threshold
    /\ CcaFinishFrame("cca_set_threshold", TRUE, cca_grid, cca_acc, cca_grid_width,
                      cca_grid_height, cca_num_states, v, cca_neighborhood,
                      cca_speed, dt)

\* Another neighbourhood picked in the combo box.
CcaSetNeighborhood(nb, dt) ==
    /\ CcaLive
    /\ nb /= cca_neighborhood
    /\ CcaFinishFrame("cca_set_neighborhood", TRUE, cca_grid, cca_acc,
                      cca_grid_width, cca_grid_height, cca_num_states,
                      cca_threshold, nb, cca_speed, dt)

\* "Grid Width" slider moved to v: reset(), which refills the existing grid.
CcaSetGridWidth(v, seed, dt) ==
    /\ CcaLive
    /\ v /= cca_grid_width
    /\ CcaFinishFrame("cca_set_grid_width", TRUE,
                      CcaRandomFill(Len(cca_grid), cca_num_states, seed), 0, v,
                      cca_grid_height, cca_num_states, cca_threshold,
                      cca_neighborhood, cca_speed, dt)

\* "Grid Height" slider moved to v: reset().
CcaSetGridHeight(v, seed, dt) ==
    /\ CcaLive
    /\ v /= cca_grid_height
    /\ CcaFinishFrame("cca_set_grid_height", TRUE,
                      CcaRandomFill(Len(cca_grid), cca_num_states, seed), 0,
                      cca_grid_width, v, cca_num_states, cca_threshold,
                      cca_neighborhood, cca_speed, dt)

\* "Random" button: reset().
CcaRandom(seed, dt) ==
    /\ CcaLive
    /\ CcaFinishFrame("cca_random", TRUE,
                      CcaRandomFill(Len(cca_grid), cca_num_states, seed), 0,
                      cca_grid_width, cca_grid_height, cca_num_states,
                      cca_threshold, cca_neighborhood, cca_speed, dt)

\* "Stripes" button: reset_with_seed("stripes").
CcaSeedStripes(dt) ==
    /\ CcaLive
    /\ LET f == CcaStripes(Len(cca_grid), cca_grid_width, cca_grid_height,
                           cca_num_states)
       IN  CcaFinishFrame("cca_stripes", f.ok, f.grid, cca_acc, cca_grid_width,
                          cca_grid_height, cca_num_states, cca_threshold,
                          cca_neighborhood, cca_speed, dt)

\* "Corners" button: reset_with_seed("corners").
CcaSeedCorners(dt) ==
    /\ CcaLive
    /\ LET f == CcaCorners(Len(cca_grid), cca_grid_width, cca_grid_height,
                           cca_num_states)
       IN  CcaFinishFrame("cca_corners", f.ok, f.grid, cca_acc, cca_grid_width,
                          cca_grid_height, cca_num_states, cca_threshold,
                          cca_neighborhood, cca_speed, dt)

\* Simulation2D::compute(width, height), called by the viewer.
CcaCompute(width, height) ==
    /\ CcaLive
    /\ op' = "cca_compute"
    /\ advanced' = 0
    /\ panicked' = (\E r \in GridComputeReads(width, height, cca_grid_width,
                                             cca_grid_height) :
                       r >= Len(cca_grid))
    /\ UNCHANGED <<NotCca, ccaVars>>

\* The Cyclic CA operations of the specification of the resizable grids.
CcaGridNext ==
    \/ \E dt \in Dts : CcaFrame(dt)
    \/ \E v \in CcaWMin..CcaWMax, seed \in Seeds, dt \in Dts : CcaSetGridWidth(v, seed, dt)
    \/ \E v \in CcaHMin..CcaHMax, seed \in Seeds, dt \in Dts : CcaSetGridHeight(v, seed, dt)
    \/ \E width \in Canvas, height \in Canvas : CcaCompute(width, height)

\* The Cyclic CA operations of the specification of the generations.
CcaGenNext ==
    \/ \E dt \in Dts : CcaFrame(dt)
    \/ \E v \in CcaStatesMin..CcaStatesMax, seed \in Seeds, dt \in Dts :
          CcaSetNumStates(v, seed, dt)
    \/ \E v \in CcaThresholdMin..CcaThresholdMax, dt \in Dts : CcaSetThreshold(v, dt)
    \/ \E nb \in Neighborhoods, dt \in Dts : CcaSetNeighborhood(nb, dt)
    \/ \E seed \in Seeds, dt \in Dts : CcaRandom(seed, dt)
    \/ \E dt \in Dts : CcaSeedStripes(dt)
    \/ \E dt \in Dts : CcaSeedCorners(dt)

(***************************************************************************)
(* Abelian sandpile (sandpile.rs).  ui_parameters runs the widgets and then *)
(* `while time_accumulator >= 1.0 { drop_sand(); time_accumulator -= 1.0 }`;*)
(* drop_sand adds a grain and calls avalanche, whose `while any_toppled`    *)
(* loop has no iteration bound.  The position inside that call chain is     *)
(* sandpile.phase: "idle" (ui_parameters has returned), "avalanche" (inside *)
(* the while loop of avalanche, before a sweep of the interior), "dropped"  *)
(* (drop_sand has just returned into the loop of ui_parameters).            *)
(* The grain lands on the centre cell (DropMode::Center, the default).      *)
(***************************************************************************)
SpWMin == 5          \* grid width slider, low end    (source: 50)
SpWMax == 6          \* grid width slider, high end   (source: 250)
SpHMin == 5          \* grid height slider, low end   (source: 50)
SpHMax == 6          \* grid height slider, high end  (source: 250)
SpCmMin == 3         \* critical-mass slider, low end
SpCmMax == 4         \* critical-mass slider, high end (source: 8)
SpCmDefault == 4     \* Default::default(): critical_mass
SpDropRate == 1      \* drop_rate, accumulator units per tick (source: 10.0 per second)
CellMod == 256       \* number of values of a u8 grid cell
MaxDrops == 14       \* the model stops adding grains when total_drops reaches this

\* The default grid (source: 150 x 150, inside the slider ranges).
SpDefaultW == SpWMax

SpDefaultH == SpHMax

\* `cell += 1` on a u8 overflows at the largest value: the call aborts when
\* overflow checks are compiled in, the cell wraps to 0 otherwise.
Overflows(v) == v + 1 >= CellMod

AddOne(v) == (v + 1) % CellMod

\* The body of avalanche's double loop for cell idx, on st = [ok, grid, any]:
\* a cell at or above critical_mass loses critical_mass grains and each of
\* its four neighbours (left, right, up, down) gains one.
SpTopple(st, idx, w, cm, checks) ==
    IF st.grid[idx + 1] >= cm
    THEN LET nbrs == {idx - 1, idx + 1, idx - w, idx + w}
         IN  [ok |-> ~(checks /\ \E n \in nbrs : Overflows(st.grid[n + 1])),
              grid |-> [i \in DOMAIN st.grid |->
                           IF i - 1 = idx THEN st.grid[i] - cm
                           ELSE IF i - 1 \in nbrs THEN AddOne(st.grid[i])
                           ELSE st.grid[i]],
              any |-> TRUE]
    ELSE st

\* One pass of `for y in 1..h-1 { for x in 1..w-1 { ... } }` from the k-th
\* interior cell on; the boundary ring is never visited.  (st ranges over the
\* one-element set {st0}: the state the loop has reached is a value.)
RECURSIVE SpSweepFrom(_, _, _, _, _, _)
SpSweepFrom(st0, k, w, h, cm, checks) ==
    CHOOSE r \in
        {IF k >= (w - 2) * (h - 2) \/ ~st.ok THEN st
         ELSE SpSweepFrom(SpTopple(st, (1 + (k \div (w - 2))) * w + 1 + (k % (w - 2)),
                                   w, cm, checks),
                          k + 1, w, h, cm, checks)
           : st \in {st0}} : TRUE

\* drop_sand up to the call of avalanche: the grain lands on the centre cell.
SpDropGrain(g, w, h, checks) ==
    LET idx == (h \div 2) * w + (w \div 2)
    IN  [ok |-> ~(checks /\ Overflows(g[idx + 1])),
         grid |-> [g EXCEPT ![idx + 1] = AddOne(g[idx + 1])]]

\* Sandpile::reset on the grid: a new zeroed Vec when the size differs, fill(0)
\* otherwise.
SpResetGrid(g, w, h) ==
    IF Len(g) /= w * h THEN [i \in 1..(w * h) |-> 0] ELSE [i \in 1..Len(g) |-> 0]

SandpileInit ==
    sandpile = [grid_width |-> SpDefaultW, grid_height |-> SpDefaultH,
                critical_mass |-> SpCmDefault, drop_rate |-> SpDropRate,
                grid |-> [i \in 1..(SpDefaultW * SpDefaultH) |-> 0],
                time_accumulator |-> 0, total_drops |-> 0, phase |-> "idle"]

SpLive == ~panicked /\ sim_2d = "Sandpile"

\* The head of the auto-dropping loop: when the accumulator holds a whole
\* unit, drop_sand adds its grain and enters avalanche.
SpLoopHead(name, sp) ==
    IF sp.time_accumulator >= AccOne
    THEN LET r == SpDropGrain(sp.grid, sp.grid_width, sp.grid_height, overflow_checks)
         IN  /\ sp.total_drops < MaxDrops
             /\ sandpile' = [sp EXCEPT !.grid = r.grid,
                                       !.total_drops = sp.total_drops + 1,
                                       !.phase = "avalanche"]
             /\ panicked' = ~r.ok
             /\ op' = name
             /\ advanced' = 0
             /\ UNCHANGED NotSandpile
    ELSE /\ sandpile' = [sp EXCEPT !.phase = "idle"]
         /\ op' = name
         /\ advanced' = 0
         /\ UNCHANGED <<panicked, NotSandpile>>

\* ui_parameters from its widgets to the head of the auto-dropping loop; sp
\* is the kernel as the widgets left it.
SpBeginFrame(name, sp, dt) ==
    SpLoopHead(name, [sp EXCEPT !.time_accumulator =
                                    sp.time_accumulator + dt * sp.drop_rate])

\* A frame in which no widget of the panel is used.
SpFrame(dt) ==
    /\ SpLive
    /\ sandpile.phase = "idle"
    /\ SpBeginFrame("sp_frame", sandpile, dt)

\* "Critical Mass" slider moved to v.
SpSetCriticalMass(v, dt) ==
    /\ SpLive
    /\ sandpile.phase = "idle"
    /\ v /= sandpile.critical_mass
    /\ SpBeginFrame("sp_set_critical_mass", [sandpile EXCEPT !.critical_mass = v], dt)

\* Sandpile::reset with the dimensions (w, h).
SpReset(sp, w, h) ==
    [sp EXCEPT !.grid_width = w, !.grid_height = h,
               !.grid = SpResetGrid(sp.grid, w, h),
               !.time_accumulator = 0, !.total_drops = 0]

\* "Grid Width" slider moved to v: reset().
SpSetGridWidth(v, dt) ==
    /\ SpLive
    /\ sandpile.phase = "idle"
    /\ v /= sandpile.grid_width
    /\ SpBeginFrame("sp_set_grid_width", SpReset(sandpile, v, sandpile.grid_height), dt)

\* "Grid Height" slider moved to v: reset().
SpSetGridHeight(v, dt) ==
    /\ SpLive
    /\ sandpile.phase = "idle"
    /\ v /= sandpile.grid_height
    /\ SpBeginFrame("sp_set_grid_height", SpReset(sandpile, sandpile.grid_width, v), dt)

\* One iteration of avalanche's `while any_toppled` loop: a sweep of the
\* interior.  A sweep that topples nothing ends the loop, and drop_sand
\* returns.
SpSweep ==
    /\ SpLive
    /\ sandpile.phase = "avalanche"
    /\ \E r \in {SpSweepFrom([ok |-> TRUE, grid |-> sandpile.grid, any |-> FALSE], 0,
                             sandpile.grid_width, sandpile.grid_height,
                             sandpile.critical_mass, overflow_checks)} :
           /\ sandpile' = [sandpile EXCEPT
                               !.grid = r.grid,
                               !.phase = IF r.ok /\ ~r.any THEN "dropped" ELSE "avalanche"]
           /\ panicked' = ~r.ok
    /\ op' = "sp_sweep"
    /\ advanced' = 0
    /\ UNCHANGED NotSandpile

\* Back in ui_parameters after drop_sand: time_accumulator -= 1.0, and the
\* loop condition is tested again.
SpLoop ==
    /\ SpLive
    /\ sandpile.phase = "dropped"
    /\ SpLoopHead("sp_loop", [sandpile EXCEPT !.time_accumulator =
                                                  sandpile.time_accumulator - AccOne])

\* Simulation2D::compute(width, height): the grid indices it reads are those
\* of GridComputeReads; the call panics when one is past the end of the grid.
SpCompute(width, height) ==
    /\ SpLive
    /\ sandpile.phase = "idle"
    /\ op' = "sp_compute"
    /\ advanced' = 0
    /\ panicked' = (\E r \in GridComputeReads(width, height, sandpile.grid_width,
                                             sandpile.grid_height) :
                       r >= Len(sandpile.grid))
    /\ UNCHANGED <<NotSandpile, sandpile>>

SandpileNext ==
    \/ \E dt \in Dts : SpFrame(dt)
    \/ \E v \in SpCmMin..SpCmMax, dt \in Dts : SpSetCriticalMass(v, dt)
    \/ \E v \in SpWMin..SpWMax, dt \in Dts : SpSetGridWidth(v, dt)
    \/ \E v \in SpHMin..SpHMax, dt \in Dts : SpSetGridHeight(v, dt)
    \/ SpSweep
    \/ SpLoop
    \/ \E width \in Canvas, height \in Canvas : SpCompute(width, height)

(***************************************************************************)
(* Langton's ant (langtons_ant.rs)                                          *)
(***************************************************************************)
AntWMin == 2         \* grid width slider, low end    (source: 50)
AntWMax == 3         \* grid width slider, high end   (source: 400)
AntHMin == 2         \* grid height slider, low end   (source: 50)
AntHMax == 3         \* grid height slider, high end  (source: 300)
AntSpeed == 2        \* speed, accumulator units per tick (source: 100.0 per second)
MaxAntSteps == 6     \* the model stops stepping the ant when step_count reaches this

\* The default grid (source: 200 x 150, inside the slider ranges).
AntDefaultW == AntWMax

AntDefaultH == AntHMin

\* A half turn.
turn_back(d) ==
    CASE d = "Up" -> "Down" [] d = "Right" -> "Left"
      [] d = "Down" -> "Up" [] d = "Left" -> "Right"

\* Direction::turn_right
turn_right(d) ==
    CASE d = "Up" -> "Right" [] d = "Right" -> "Down"
      [] d = "Down" -> "Left" [] d = "Left" -> "Up"

\* Direction::turn_left
turn_left(d) ==
    CASE d = "Up" -> "Left" [] d = "Left" -> "Down"
      [] d = "Down" -> "Right" [] d = "Right" -> "Up"

\* Direction::to_offset
to_offset(d) ==
    CASE d = "Up" -> <<0, -1>> [] d = "Right" -> <<1, 0>>
      [] d = "Down" -> <<0, 1>> [] d = "Left" -> <<-1, 0>>

\* i32::clamp
Clamp(v, lo, hi) == IF v < lo THEN lo ELSE IF v > hi THEN hi ELSE v

\* An edge handling that wraps at the low edges only.
AntEdgesLowOnly(x, y, d, w, h, wrap) ==
    IF wrap
    THEN [x |-> IF x < 0 THEN x + w ELSE x,
          y |-> IF y < 0 THEN y + h ELSE y,
          d |-> d]
    ELSE [x |-> Clamp(x, 0, w - 1), y |-> Clamp(y, 0, h - 1), d |-> d]

\* The edge handling of LangtonsAnt::step for the moved ant at (x, y) heading d.
AntEdges(x, y, d, w, h, wrap) ==
    IF wrap
    THEN [x |-> IF x < 0 THEN x + w ELSE IF x >= w THEN x - w ELSE x,
          y |-> IF y < 0 THEN y + h ELSE IF y >= h THEN y - h ELSE y,
          d |-> d]
    ELSE LET dx == IF x < 0 \/ x >= w
                   THEN (IF d = "Left" THEN "Right" ELSE IF d = "Right" THEN "Left" ELSE d)
                   ELSE d
             dy == IF y < 0 \/ y >= h
                   THEN (IF dx = "Up" THEN "Down" ELSE IF dx = "Down" THEN "Up" ELSE dx)
                   ELSE dx
         IN  [x |-> Clamp(x, 0, w - 1), y |-> Clamp(y, 0, h - 1), d |-> dy]

\* LangtonsAnt::step
AntStep(a) ==
    LET w == a.grid_width
        h == a.grid_height
        idx == (a.ant_y * w + a.ant_x) % (w * h)
        is_white == a.grid[idx + 1]
        d == IF is_white THEN turn_right(a.direction) ELSE turn_left(a.direction)
        e == AntEdges(a.ant_x + to_offset(d)[1], a.ant_y + to_offset(d)[2], d, w, h,
                      a.wrap_edges)
    IN  [a EXCEPT !.grid = [a.grid EXCEPT ![idx + 1] = ~is_white],
                  !.ant_x = e.x, !.ant_y = e.y, !.direction = e.d,
                  !.step_count = a.step_count + 1]

\* `while self.time_accumulator >= 1.0 { self.step(); ... }`, n iterations.
RECURSIVE AntSteps(_, _)
AntSteps(a, n) == IF n = 0 THEN a ELSE AntSteps(AntStep(a), n - 1)

\* LangtonsAnt::reset with the dimensions (w, h).
AntReset(a, w, h) ==
    [a EXCEPT !.grid_width = w, !.grid_height = h,
              !.grid = IF Len(a.grid) /= w * h
                       THEN [i \in 1..(w * h) |-> FALSE]
                       ELSE [i \in 1..Len(a.grid) |-> FALSE],
              !.ant_x = w \div 2, !.ant_y = h \div 2, !.direction = "Up",
              !.step_count = 0, !.time_accumulator = 0]

AntNew ==
    [grid_width |-> AntDefaultW, grid_height |-> AntDefaultH, speed |-> AntSpeed,
     wrap_edges |-> TRUE,
     grid |-> [i \in 1..(AntDefaultW * AntDefaultH) |-> FALSE],
     ant_x |-> AntDefaultW \div 2, ant_y |-> AntDefaultH \div 2, direction |-> "Up",
     time_accumulator |-> 0, step_count |-> 0]

AntInit == ant = AntNew

\* LangtonsAnt::ui_parameters from the end of its widgets: auto-stepping of
\* the kernel a the widgets left.  The result is [ant, steps].
AntAutoStep(a, dt) ==
    LET acc == a.time_accumulator + dt * a.speed
    IN  [ant |-> [AntSteps(a, LoopCount(acc)) EXCEPT !.time_accumulator = LoopRest(acc)],
         steps |-> LoopCount(acc)]

AntFinishFrame(name, a, dt) ==
    LET r == AntAutoStep(a, dt)
    IN  /\ r.ant.step_count <= MaxAntSteps
        /\ ant' = r.ant
        /\ op' = name
        /\ advanced' = r.steps
        /\ UNCHANGED <<panicked, NotAnt>>

AntLive == ~panicked /\ sim_2d = "LangtonsAnt"

\* A frame in which no widget of the panel is used.
AntFrame(dt) ==
    /\ AntLive
    /\ AntFinishFrame("ant_frame", ant, dt)

\* "Grid Width" slider moved to v: reset().
AntSetGridWidth(v, dt) ==
    /\ AntLive
    /\ v /= ant.grid_width
    /\ AntFinishFrame("ant_set_grid_width", AntReset(ant, v, ant.grid_height), dt)

\* "Grid Height" slider moved to v: reset().
AntSetGridHeight(v, dt) ==
    /\ AntLive
    /\ v /= ant.grid_height
    /\ AntFinishFrame("ant_set_grid_height", AntReset(ant, ant.grid_width, v), dt)

\* "Wrap Edges" checkbox.
AntToggleWrap(dt) ==
    /\ AntLive
    /\ AntFinishFrame("ant_toggle_wrap", [ant EXCEPT !.wrap_edges = ~ant.wrap_edges], dt)

\* Simulation2D::compute(width, height)
AntCompute(width, height) ==
    /\ AntLive
    /\ op' = "ant_compute"
    /\ advanced' = 0
    /\ panicked' = (\E r \in GridComputeReads(width, height, ant.grid_width,
                                              ant.grid_height) :
                       r >= Len(ant.grid))
    /\ UNCHANGED <<NotAnt, ant>>

AntNext ==
    \/ \E dt \in Dts : AntFrame(dt)
    \/ \E v \in AntWMin..AntWMax, dt \in Dts : AntSetGridWidth(v, dt)
    \/ \E v \in AntHMin..AntHMax, dt \in Dts : AntSetGridHeight(v, dt)
    \/ \E dt \in Dts : AntToggleWrap(dt)
    \/ \E width \in Canvas, height \in Canvas : AntCompute(width, height)

(***************************************************************************)
(* Game of Life (game_of_life.rs)                                           *)
(***************************************************************************)
LifeW == 3           \* grid width  (source: 120)
LifeH == 3           \* grid height (source: 120)
LifeSpeed == 1       \* speed, accumulator units per tick (source: 10.0 per second)
AgeMax == 3          \* cell_age saturates here (source: u32::MAX)
MaxGeneration == 2   \* the model stops stepping when generation reaches this

LifeRules == {"Conway", "HighLife", "Seeds", "LifeWithoutDeath", "DayAndNight", "Maze"}

\* A rule table in which a live cell needs exactly three neighbours too.
should_live_b3s3(rule, alive, neighbors) == neighbors = 3

\* LifeRule::should_live
should_live(rule, alive, neighbors) ==
    CASE rule = "Conway" -> IF alive THEN neighbors \in 2..3 ELSE neighbors = 3
      [] rule = "HighLife" -> IF alive THEN neighbors \in 2..3 ELSE neighbors \in {3, 6}
      [] rule = "Seeds" -> ~alive /\ neighbors = 2
      [] rule = "LifeWithoutDeath" -> alive \/ neighbors = 3
      [] rule = "DayAndNight" ->
            IF alive THEN neighbors \in {3, 4, 6, 7, 8} ELSE neighbors \in {3, 6, 7, 8}
      [] rule = "Maze" -> IF alive THEN neighbors \in 1..5 ELSE neighbors = 3

\* The eight (dx, dy) that count_neighbors visits.
LifeOffsets == {d \in (-1..1) \X (-1..1) : d /= <<0, 0>>}

\* A neighbour count that stops at the edges of the grid.
count_neighbors_clipped(cells, x, y, w, h) ==
    Cardinality({d \in LifeOffsets :
                    /\ x + d[1] \in 0..(w - 1)
                    /\ y + d[2] \in 0..(h - 1)
                    /\ cells[(y + d[2]) * w + (x + d[1]) + 1]})

\* GameOfLife::count_neighbors on the cells it reads, with toroidal wrap.
count_neighbors(cells, x, y, w, h) ==
    Cardinality({d \in LifeOffsets :
                    cells[((y + d[2] + h) % h) * w + ((x + d[1] + w) % w) + 1]})

\* The age GameOfLife::step gives cell idx, from the cell's new state and the
\* old cells and ages.
LifeAge(alive_now, was_alive, age) ==
    IF alive_now THEN (IF was_alive THEN Min(age + 1, AgeMax) ELSE 1) ELSE 0

\* new_cells[idx] = ...; new_age[idx] = ...: the writes of one cell go to the
\* clones; self.cells and self.cell_age are untouched.
\* st = [cells, cell_age, new_cells, new_age].
LifeWriteCell(st, idx, alive, age) ==
    [st EXCEPT !.new_cells[idx + 1] = alive, !.new_age[idx + 1] = age]

\* The double loop of GameOfLife::step from cell idx on, in row-major order.
RECURSIVE LifeSweep(_, _, _, _, _)
LifeSweep(st, idx, w, h, rule) ==
    IF idx >= w * h THEN st
    ELSE LET alive == should_live(rule, st.cells[idx + 1],
                                  count_neighbors(st.cells, idx % w, idx \div w, w, h))
         IN  LifeSweep(LifeWriteCell(st, idx, alive,
                                     LifeAge(alive, st.cells[idx + 1],
                                             st.cell_age[idx + 1])),
                       idx + 1, w, h, rule)

\* GameOfLife::step: clone both vectors, sweep, assign the clones back,
\* generation += 1.
LifeStep(l) ==
    LET r == LifeSweep([cells |-> l.cells, cell_age |-> l.cell_age,
                        new_cells |-> l.cells, new_age |-> l.cell_age],
                       0, l.grid_width, l.grid_height, l.rule)
    IN  [l EXCEPT !.cells = r.new_cells, !.cell_age = r.new_age,
                  !.generation = l.generation + 1]

\* n calls of step in a row.
RECURSIVE LifeSteps(_, _)
LifeSteps(l, n) == IF n = 0 THEN l ELSE LifeSteps(LifeStep(l), n - 1)

\* The (dx, dy) of add_glider.
GliderPattern == {<<1, 0>>, <<2, 1>>, <<0, 2>>, <<1, 2>>, <<2, 2>>}

\* add_glider(cells, width, x, y): the cells of the pattern with
\* x + dx < width and y + dy < width are set.
add_glider(cells, width, x, y) ==
    [i \in DOMAIN cells |->
        \/ cells[i]
        \/ \E d \in GliderPattern :
              /\ x + d[1] < width
              /\ y + d[2] < width
              /\ i - 1 = (y + d[2]) * width + (x + d[1])]

\* GameOfLife::clear: cells are emptied; cell_age is not touched.
LifeClearCells(cells) == [i \in DOMAIN cells |-> FALSE]

\* GameOfLife::new: the default grid with the start pattern at its corner.
LifeNew ==
    [grid_width |-> LifeW, grid_height |-> LifeH,
     cells |-> add_glider([i \in 1..(LifeW * LifeH) |-> FALSE], LifeW, 0, 0),
     cell_age |-> [i \in 1..(LifeW * LifeH) |-> 0],
     speed |-> LifeSpeed, time_accumulator |-> 0, rule |-> "Conway",
     paused |-> FALSE, generation |-> 0]

LifeInit == life = LifeNew

\* GameOfLife::ui_parameters from the end of its widgets: auto-stepping of
\* the kernel l the widgets left, unless it is paused.  [life, steps].
LifeAutoStep(l, dt) ==
    IF l.paused THEN [life |-> l, steps |-> 0]
    ELSE LET acc == l.time_accumulator + dt * l.speed
         IN  [life |-> [LifeSteps(l, LoopCount(acc)) EXCEPT
                            !.time_accumulator = LoopRest(acc)],
              steps |-> LoopCount(acc)]

\* pressed is the number of step calls the widgets made themselves.
LifeFinishFrame(name, l, pressed, dt) ==
    LET r == LifeAutoStep(l, dt)
    IN  /\ r.life.generation <= MaxGeneration
        /\ life' = r.life
        /\ op' = name
        /\ advanced' = pressed + r.steps
        /\ UNCHANGED <<panicked, NotLife>>

LifeLive == ~panicked /\ sim_2d = "GameOfLife"

\* A frame in which no widget of the panel is used.
LifeFrame(dt) ==
    /\ LifeLive
    /\ LifeFinishFrame("life_frame", life, 0, dt)

\* "Play" / "Pause" button.
LifeTogglePause(dt) ==
    /\ LifeLive
    /\ LifeFinishFrame("life_toggle_pause", [life EXCEPT !.paused = ~life.paused], 0, dt)

\* "Step" button: one step call, whether paused or not.
LifeStepButton(dt) ==
    /\ LifeLive
    /\ LifeFinishFrame("life_step_button", LifeStep(life), 1, dt)

\* "Clear" button: clear(), generation = 0.
LifeClear(dt) ==
    /\ LifeLive
    /\ LifeFinishFrame("life_clear",
                       [life EXCEPT !.cells = LifeClearCells(life.cells),
                                    !.generation = 0], 0, dt)

\* Another rule picked in the combo box.
LifeSetRule(rule, dt) ==
    /\ LifeLive
    /\ rule /= life.rule
    /\ LifeFinishFrame("life_set_rule", [life EXCEPT !.rule = rule], 0, dt)

\* "Glider" button: add_pattern("Glider"): clear(), the pattern at the
\* centre, generation = 0.
LifeGlider(dt) ==
    /\ LifeLive
    /\ LifeFinishFrame("life_glider",
                       [life EXCEPT !.cells = add_glider(LifeClearCells(life.cells),
                                                         life.grid_width,
                                                         life.grid_width \div 2,
                                                         life.grid_height \div 2),
                                    !.generation = 0], 0, dt)

\* "Random Soup" button: randomize(), generation = 0.  Cell i is alive when
\* its hash is 0 modulo 3.
LifeRandom(seed, dt) ==
    /\ LifeLive
    /\ LifeFinishFrame("life_random",
                       [life EXCEPT !.cells = [i \in DOMAIN life.cells |->
                                                  Sample(seed, i - 1, 3) = 0],
                                    !.generation = 0], 0, dt)

LifeNext ==
    \/ \E dt \in Dts : LifeFrame(dt)
    \/ \E dt \in Dts : LifeTogglePause(dt)
    \/ \E dt \in Dts : LifeStepButton(dt)
    \/ \E dt \in Dts : LifeClear(dt)
    \/ \E rule \in LifeRules, dt \in Dts : LifeSetRule(rule, dt)
    \/ \E dt \in Dts : LifeGlider(dt)
    \/ \E seed \in Seeds, dt \in Dts : LifeRandom(seed, dt)

(***************************************************************************)
(* Kernels that draw from host-adjustable random ranges: Vortex Turbulence *)
(* (vortex_turbulence.rs), Perlin Flow (generative/perlin_flow.rs) and 2D  *)
(* Boids (generative/boids.rs).  Quantities are in slider ticks.  A        *)
(* particle is modelled by the one field the ranges decide: its life, its  *)
(* lifetime, its size.                                                     *)
(***************************************************************************)
TurbMax == 2         \* turbulence slider 0..TurbMax        (source: 0.0..=15.0)
VtxTurbDefault == 1  \* default turbulence                  (source: 5.0)
VtxCountMin == 1     \* particle_count slider, low end      (source: 100)
VtxCountMax == 2     \* particle_count slider, high end     (source: 1000)
VtxLife == 3         \* particle_life, in frame ticks       (source: 10.0)
PfCountMin == 1      \* particle_count slider, low end      (source: 10)
PfCountMax == 2      \* particle_count slider, high end     (source: 5000)
PfLow == 1           \* low end of the four range sliders   (source: 0.5)
PfMinHigh == 2       \* high end of the two min sliders     (source: 10.0)
PfMaxHigh == 3       \* high end of the two max sliders     (source: 20.0)
PfMinDefault == 1    \* default lifetime and size min       (source: 2.0, 1.0)
PfMaxDefault == 2    \* default lifetime and size max       (source: 5.0, 3.0)
BoidCountMin == 1    \* boid_count slider, low end          (source: 10)
BoidCountMax == 2    \* boid_count slider, high end         (source: 500)
BoidSpeedLow == 1    \* low end of gen_range(1.0..max_speed) and of the slider
BoidSpeedMax == 3    \* max_speed slider, high end          (source: 10.0)
BoidSpeedDefault == 2 \* default max_speed                  (source: 4.0)
BoidSizeLow == 1     \* low end of both size sliders        (source: 1.0)
BoidSizeMinHigh == 2 \* boid_size_min slider, high end      (source: 10.0)
BoidSizeMaxHigh == 3 \* boid_size_max slider, high end      (source: 15.0)
BoidSizeMinDefault == 1 \* default boid_size_min            (source: 3.0)
BoidSizeMaxDefault == 2 \* default boid_size_max            (source: 5.0)

\* rng.gen_range(lo..hi) panics ("cannot sample empty range") unless lo < hi.
gen_range_panics(lo, hi) == ~(lo < hi)

\* The k-th sample of rng.gen_range(lo..hi) of a non-empty range.
RangeSample(seed, k, lo, hi) == lo + Sample(seed, k, hi - lo)

\* ---- Vortex Turbulence ----

\* init_particles: particle_count particles, life = gen_range(0.0..particle_life).
VtxInitParticles(v, seed) ==
    [v EXCEPT !.particles = [k \in 1..v.particle_count |->
                                RangeSample(seed, k, 0, v.particle_life)]]

\* VortexTurbulence::new: the defaults, then init_simulation.
VortexNew(seed) ==
    VtxInitParticles([turbulence |-> VtxTurbDefault, particle_count |-> VtxCountMax,
                      particle_life |-> VtxLife, particles |-> <<>>], seed)

VortexInit == \E seed \in Seeds : vortex = VortexNew(seed)

\* particles.retain(|p| p.life > 0.0)
RECURSIVE VtxRetain(_)
VtxRetain(ps) ==
    IF ps = <<>> THEN <<>>
    ELSE IF Head(ps) > 0 THEN <<Head(ps)>> \o VtxRetain(Tail(ps)) ELSE VtxRetain(Tail(ps))

\* step(dt): every particle draws its turbulence from
\* gen_range(-turbulence..turbulence), moves and ages by dt; the dead are
\* removed; spawned particles (as many as gen_bool allowed) are appended.
VtxStep(v, dt, spawned) ==
    IF v.particles /= <<>> /\ gen_range_panics(0 - v.turbulence, v.turbulence)
    THEN [ok |-> FALSE, vortex |-> v]
    ELSE LET kept == VtxRetain([k \in DOMAIN v.particles |-> v.particles[k] - dt])
             room == IF Len(kept) < v.particle_count
                     THEN v.particle_count - Len(kept) ELSE 0
             n == IF spawned < room THEN spawned ELSE room
         IN  [ok |-> TRUE,
              vortex |-> [v EXCEPT !.particles = kept \o [k \in 1..n |-> v.particle_life]]]

\* The rest of a 3D frame after the panel: the host's one step(dt).
VtxFinishFrame(name, v, dt, spawned) ==
    \E r \in {VtxStep(v, dt, spawned)} :
        /\ vortex' = r.vortex
        /\ panicked' = ~r.ok
        /\ advanced' = IF r.ok THEN 1 ELSE 0
        /\ op' = name
        /\ UNCHANGED NotVortex

VtxLive == ~panicked /\ sim_3d = "VortexTurbulence"

VtxFrame(dt, spawned) ==
    /\ VtxLive
    /\ VtxFinishFrame("vtx_frame", vortex, dt, spawned)

\* "Turbulence" slider.
VtxSetTurbulence(t, dt, spawned) ==
    /\ VtxLive
    /\ t /= vortex.turbulence
    /\ VtxFinishFrame("vtx_set_turbulence", [vortex EXCEPT !.turbulence = t], dt, spawned)

\* "Particle Count" slider: the field changes, nothing is re-initialised.
VtxSetParticleCount(c, dt, spawned) ==
    /\ VtxLive
    /\ c /= vortex.particle_count
    /\ VtxFinishFrame("vtx_set_particle_count", [vortex EXCEPT !.particle_count = c],
                      dt, spawned)

\* "Reset" button: init_simulation.
VtxReset(seed, dt, spawned) ==
    /\ VtxLive
    /\ VtxFinishFrame("vtx_reset", VtxInitParticles(vortex, seed), dt, spawned)

VortexNext ==
    \/ \E dt \in Dts, n \in 0..VtxCountMax : VtxFrame(dt, n)
    \/ \E t \in 0..TurbMax, dt \in Dts, n \in 0..VtxCountMax : VtxSetTurbulence(t, dt, n)
    \/ \E c \in VtxCountMin..VtxCountMax, dt \in Dts, n \in 0..VtxCountMax :
           VtxSetParticleCount(c, dt, n)
    \/ \E seed \in Seeds, dt \in Dts, n \in 0..VtxCountMax : VtxReset(seed, dt, n)

\* ---- Perlin Flow ----

\* init_particles: per particle, lifetime = gen_range(lifetime_min..lifetime_max)
\* and size = gen_range(size_min..size_max).
PfInitParticles(p, seed) ==
    IF p.particle_count > 0
       /\ (\/ gen_range_panics(p.particle_lifetime_min, p.particle_lifetime_max)
           \/ gen_range_panics(p.particle_size_min, p.particle_size_max))
    THEN [ok |-> FALSE, perlin |-> p]
    ELSE [ok |-> TRUE,
          perlin |-> [p EXCEPT !.particles = [k \in 1..p.particle_count |->
              RangeSample(seed, k, p.particle_lifetime_min, p.particle_lifetime_max)]]]

PerlinDefault ==
    [particle_count |-> PfCountMin,
     particle_lifetime_min |-> PfMinDefault, particle_lifetime_max |-> PfMaxDefault,
     particle_size_min |-> PfMinDefault, particle_size_max |-> PfMaxDefault,
     particles |-> <<>>]

\* PerlinFlow::new: the defaults, then init_particles(800, 600).
PerlinNew(seed) == PfInitParticles(PerlinDefault, seed).perlin

PerlinInit == \E seed \in Seeds : perlin = PerlinNew(seed)

\* update_particles from particle k on: lifetime -= dt; a particle whose
\* lifetime is used up respawns with gen_range(lifetime_min..lifetime_max).
RECURSIVE PfUpdateFrom(_, _, _, _, _)
PfUpdateFrom(p, ps, k, dt, seed) ==
    IF k > Len(ps) THEN [ok |-> TRUE, perlin |-> [p EXCEPT !.particles = ps]]
    ELSE IF ps[k] - dt > 0
         THEN PfUpdateFrom(p, [ps EXCEPT ![k] = ps[k] - dt], k + 1, dt, seed)
         ELSE IF gen_range_panics(p.particle_lifetime_min, p.particle_lifetime_max)
              THEN [ok |-> FALSE, perlin |-> [p EXCEPT !.particles = ps]]
              ELSE PfUpdateFrom(p, [ps EXCEPT ![k] = RangeSample(seed, k,
                                        p.particle_lifetime_min, p.particle_lifetime_max)],
                                k + 1, dt, seed)

\* The tail of ui_parameters: init_particles if the count differs from the
\* number of particles, then update_particles.
PfFinishFrame(name, p, dt, seed) ==
    \E i \in {IF Len(p.particles) /= p.particle_count
              THEN PfInitParticles(p, seed) ELSE [ok |-> TRUE, perlin |-> p]} :
    \E r \in {IF i.ok THEN PfUpdateFrom(i.perlin, i.perlin.particles, 1, dt, seed) ELSE i} :
        /\ perlin' = r.perlin
        /\ panicked' = ~r.ok
        /\ advanced' = IF r.ok THEN 1 ELSE 0
        /\ op' = name
        /\ UNCHANGED NotPerlin

PfLive == ~panicked /\ sim_2d = "PerlinFlow"

PfFrame(dt, seed) ==
    /\ PfLive
    /\ PfFinishFrame("pf_frame", perlin, dt, seed)

\* "Particle Count" slider.
PfSetParticleCount(c, dt, seed) ==
    /\ PfLive
    /\ c /= perlin.particle_count
    /\ PfFinishFrame("pf_set_particle_count", [perlin EXCEPT !.particle_count = c], dt, seed)

\* "Min Size" and "Max Size" sliders.
PfSetSizeMin(v, dt, seed) ==
    /\ PfLive
    /\ v /= perlin.particle_size_min
    /\ PfFinishFrame("pf_set_size_min", [perlin EXCEPT !.particle_size_min = v], dt, seed)

PfSetSizeMax(v, dt, seed) ==
    /\ PfLive
    /\ v /= perlin.particle_size_max
    /\ PfFinishFrame("pf_set_size_max", [perlin EXCEPT !.particle_size_max = v], dt, seed)

\* "Min Lifetime" and "Max Lifetime" sliders.
PfSetLifetimeMin(v, dt, seed) ==
    /\ PfLive
    /\ v /= perlin.particle_lifetime_min
    /\ PfFinishFrame("pf_set_lifetime_min", [perlin EXCEPT !.particle_lifetime_min = v],
                     dt, seed)

PfSetLifetimeMax(v, dt, seed) ==
    /\ PfLive
    /\ v /= perlin.particle_lifetime_max
    /\ PfFinishFrame("pf_set_lifetime_max", [perlin EXCEPT !.particle_lifetime_max = v],
                     dt, seed)

PerlinNext ==
    \/ \E dt \in Dts, seed \in Seeds : PfFrame(dt, seed)
    \/ \E c \in PfCountMin..PfCountMax, dt \in Dts, seed \in Seeds :
           PfSetParticleCount(c, dt, seed)
    \/ \E v \in PfLow..PfMinHigh, dt \in Dts, seed \in Seeds : PfSetSizeMin(v, dt, seed)
    \/ \E v \in PfLow..PfMaxHigh, dt \in Dts, seed \in Seeds : PfSetSizeMax(v, dt, seed)
    \/ \E v \in PfLow..PfMinHigh, dt \in Dts, seed \in Seeds : PfSetLifetimeMin(v, dt, seed)
    \/ \E v \in PfLow..PfMaxHigh, dt \in Dts, seed \in Seeds : PfSetLifetimeMax(v, dt, seed)

\* ---- 2D Boids ----

\* init_boids: per boid, speed = gen_range(1.0..max_speed) and
\* size = gen_range(boid_size_min..boid_size_max).
BoidsInitBoids(b, seed) ==
    IF b.boid_count > 0
       /\ (\/ gen_range_panics(BoidSpeedLow, b.max_speed)
           \/ gen_range_panics(b.boid_size_min, b.boid_size_max))
    THEN [ok |-> FALSE, boids |-> b]
    ELSE [ok |-> TRUE,
          boids |-> [b EXCEPT !.boids = [k \in 1..b.boid_count |->
              RangeSample(seed, k, b.boid_size_min, b.boid_size_max)]]]

BoidsDefault ==
    [boid_count |-> BoidCountMin, max_speed |-> BoidSpeedDefault,
     boid_size_min |-> BoidSizeMinDefault, boid_size_max |-> BoidSizeMaxDefault,
     boids |-> <<>>]

\* Boids::new: the defaults, then init_boids(800, 600).
BoidsNew(seed) == BoidsInitBoids(BoidsDefault, seed).boids

BoidsInit == \E seed \in Seeds : boids = BoidsNew(seed)

\* The tail of ui_parameters: init_boids if the count differs from the number
\* of boids, then update_boids, which leaves every boid's size alone.
BoidsFinishFrame(name, b, seed) ==
    \E r \in {IF Len(b.boids) /= b.boid_count
              THEN BoidsInitBoids(b, seed) ELSE [ok |-> TRUE, boids |-> b]} :
        /\ boids' = r.boids
        /\ panicked' = ~r.ok
        /\ advanced' = IF r.ok THEN 1 ELSE 0
        /\ op' = name
        /\ UNCHANGED NotBoids

BoidsLive == ~panicked /\ sim_2d = "Boids"

BoidsFrame(seed) ==
    /\ BoidsLive
    /\ BoidsFinishFrame("boids_frame", boids, seed)

\* "Boid Count" slider.
BoidsSetBoidCount(c, seed) ==
    /\ BoidsLive
    /\ c /= boids.boid_count
    /\ BoidsFinishFrame("boids_set_boid_count", [boids EXCEPT !.boid_count = c], seed)

\* "Max Speed" slider.
BoidsSetMaxSpeed(v, seed) ==
    /\ BoidsLive
    /\ v /= boids.max_speed
    /\ BoidsFinishFrame("boids_set_max_speed", [boids EXCEPT !.max_speed = v], seed)

\* "Min Size" and "Max Size" sliders.
BoidsSetSizeMin(v, seed) ==
    /\ BoidsLive
    /\ v /= boids.boid_size_min
    /\ BoidsFinishFrame("boids_set_size_min", [boids EXCEPT !.boid_size_min = v], seed)

BoidsSetSizeMax(v, seed) ==
    /\ BoidsLive
    /\ v /= boids.boid_size_max
    /\ BoidsFinishFrame("boids_set_size_max", [boids EXCEPT !.boid_size_max = v], seed)

BoidsNext ==
    \/ \E seed \in Seeds : BoidsFrame(seed)
    \/ \E c \in BoidCountMin..BoidCountMax, seed \in Seeds : BoidsSetBoidCount(c, seed)
    \/ \E v \in BoidSpeedLow..BoidSpeedMax, seed \in Seeds : BoidsSetMaxSpeed(v, seed)
    \/ \E v \in BoidSizeLow..BoidSizeMinHigh, seed \in Seeds : BoidsSetSizeMin(v, seed)
    \/ \E v \in BoidSizeLow..BoidSizeMaxHigh, seed \in Seeds : BoidsSetSizeMax(v, seed)

(***************************************************************************)
(* Falling sand (falling_sand.rs).  The grid and the temperatures are      *)
(* sequences in row-major order, cell (x, y) at index y * width + x + 1.   *)
(* The velocities vector is swapped along but never read and is left out.  *)
(* A pass keeps the set of cells it has written so far; reread and         *)
(* rewritten record whether a later update of the same pass read, or       *)
(* wrote, one of them.                                                     *)
(***************************************************************************)
FsW == 2             \* width                               (source: 200)
FsH == 2             \* height                              (source: 150)
FsBrushMin == 1      \* brush_size slider, low end          (source: 1)
FsBrushMax == 2      \* brush_size slider, high end         (source: 10)
FsFireTemp == 2      \* temperature of new fire             (source: 100.0)

\* The material buttons the host presses: Sand, Water and Fire (of the five;
\* Stone and Wood never move).
FsMaterials == {0, 1, 3}

\* index_to_material
index_to_material(index) ==
    CASE index = 0 -> "Sand"
      [] index = 1 -> "Water"
      [] index = 2 -> "Stone"
      [] index = 3 -> "Fire"
      [] index = 4 -> "Wood"
      [] OTHER -> "Sand"

\* FallingSand::new
FsandNew ==
    [brush_size |-> FsBrushMax, current_material |-> 0,
     grid |-> [i \in 1..(FsW * FsH) |-> "Empty"],
     temperatures |-> [i \in 1..(FsW * FsH) |-> 0],
     reread |-> FALSE, rewritten |-> FALSE]

FsandInit == fsand = FsandNew

\* What one update did to the bookkeeping of the pass: it read the cells
\* reads and wrote the cells writes (0-based indices).
FsNote(st, g, t, reads, writes) ==
    [grid |-> g, temperatures |-> t,
     written |-> st.written \cup writes,
     reread |-> st.reread \/ (reads \cap st.written /= {}),
     rewritten |-> st.rewritten \/ (writes \cap st.written /= {})]

\* self.grid.swap(i, j); self.temperatures.swap(i, j)
FsSwap(s, i, j) == [s EXCEPT ![i + 1] = s[j + 1], ![j + 1] = s[i + 1]]

\* update_sand and update_water: the cell moves to the cell target when that
\* holds one of the materials into; otherwise to the cell at column x + dx of
\* row sideRow, if that is on the grid and holds one of into.
FsFall(st, x, idx, target, sideRow, dx, into) ==
    IF st.grid[target + 1] \in into
    THEN FsNote(st, FsSwap(st.grid, idx, target), FsSwap(st.temperatures, idx, target),
                {idx, target}, {idx, target})
    ELSE IF x + dx >= 0 /\ x + dx < FsW
         THEN LET side == sideRow * FsW + x + dx
              IN  IF st.grid[side + 1] \in into
                  THEN FsNote(st, FsSwap(st.grid, idx, side),
                              FsSwap(st.temperatures, idx, side),
                              {idx, target, side}, {idx, side})
                  ELSE FsNote(st, st.grid, st.temperatures, {idx, target, side}, {})
         ELSE FsNote(st, st.grid, st.temperatures, {idx, target}, {})

update_sand(st, x, y, dx) ==
    IF y >= FsH - 1 THEN FsNote(st, st.grid, st.temperatures, {y * FsW + x}, {})
    ELSE FsFall(st, x, y * FsW + x, (y + 1) * FsW + x, y + 1, dx, {"Empty", "Water"})

update_water(st, x, y, dx) ==
    IF y >= FsH - 1 THEN FsNote(st, st.grid, st.temperatures, {y * FsW + x}, {})
    ELSE FsFall(st, x, y * FsW + x, (y + 1) * FsW + x, y, dx, {"Empty"})

\* update_fire: cool by one; burnt out at 0; else rise into an empty cell
\* above if the coin rise says so, and ignite the wood next to (x, y) if the
\* coin ignite says so.
update_fire(st, x, y, rise, ignite) ==
    LET idx == y * FsW + x
        cooled == [st.temperatures EXCEPT ![idx + 1] = @ - 1]
        above == (y - 1) * FsW + x
        rises == y > 0 /\ st.grid[above + 1] = "Empty" /\ rise
        g1 == IF rises THEN FsSwap(st.grid, idx, above) ELSE st.grid
        t1 == IF rises THEN FsSwap(cooled, idx, above) ELSE cooled
        nbrs == {ny * FsW + nx : <<nx, ny>> \in
                    {p \in {<<x - 1, y>>, <<x + 1, y>>, <<x, y - 1>>, <<x, y + 1>>} :
                        p[1] >= 0 /\ p[1] < FsW /\ p[2] >= 0 /\ p[2] < FsH}}
        lit == {n \in nbrs : g1[n + 1] = "Wood" /\ ignite}
    IN  IF cooled[idx + 1] <= 0
        THEN FsNote(st, [st.grid EXCEPT ![idx + 1] = "Empty"], cooled, {idx}, {idx})
        ELSE FsNote(st,
                    [i \in DOMAIN g1 |-> IF i - 1 \in lit THEN "Fire" ELSE g1[i]],
                    [i \in DOMAIN t1 |-> IF i - 1 \in lit THEN FsFireTemp ELSE t1[i]],
                    {idx} \cup nbrs \cup (IF y > 0 THEN {above} ELSE {}),
                    {idx} \cup lit \cup (IF rises THEN {above} ELSE {}))

\* update_particle
update_particle(st, x, y, dx, rise, ignite) ==
    LET material == st.grid[y * FsW + x + 1]
    IN  CASE material = "Sand" -> update_sand(st, x, y, dx)
          [] material = "Water" -> update_water(st, x, y, dx)
          [] material = "Fire" -> update_fire(st, x, y, rise, ignite)
          [] OTHER -> FsNote(st, st.grid, st.temperatures, {y * FsW + x}, {})

\* for y in (0..height).rev() { for x in 0..width { update_particle(x, y) } },
\* from the k-th cell of that order on; every update works on the grid the
\* updates before it left.
RECURSIVE FsPass(_, _, _, _, _)
FsPass(st, k, dx, rise, ignite) ==
    IF k >= FsW * FsH THEN st
    ELSE FsPass(update_particle(st, k % FsW, FsH - 1 - (k \div FsW), dx, rise, ignite),
                k + 1, dx, rise, ignite)

\* The brush at the top row: brush_size x brush_size cells from column
\* x - brush_size / 2 (saturating) become the current material.
FsBrushCells(f, x) ==
    {py * FsW + px : <<px, py>> \in
        {<<(IF x + dx >= f.brush_size \div 2 THEN x + dx - f.brush_size \div 2 ELSE 0), dy>> :
            dx \in 0..(f.brush_size - 1), dy \in 0..(f.brush_size - 1)}
        \cap ((0..(FsW - 1)) \X (0..(FsH - 1)))}

FsSpawn(f, x) ==
    LET cells == FsBrushCells(f, x)
    IN  [f EXCEPT !.grid = [i \in DOMAIN f.grid |->
                               IF i - 1 \in cells THEN index_to_material(f.current_material)
                               ELSE f.grid[i]],
                  !.temperatures = [i \in DOMAIN f.temperatures |->
                               IF i - 1 \in cells /\ f.current_material = 3 THEN FsFireTemp
                               ELSE f.temperatures[i]]]

\* The tail of ui_parameters: the spawn at the top (if gen_bool(0.3) said so,
\* at column x), then one physics pass.  The coins of the pass are dx, rise
\* and ignite.
FsFinishFrame(name, f, spawn, x, dx, rise, ignite) ==
    \E f1 \in {IF spawn THEN FsSpawn(f, x) ELSE f} :
    \E r \in {FsPass([grid |-> f1.grid, temperatures |-> f1.temperatures, written |-> {},
                      reread |-> FALSE, rewritten |-> FALSE], 0, dx, rise, ignite)} :
        /\ fsand' = [f1 EXCEPT !.grid = r.grid, !.temperatures = r.temperatures,
                               !.reread = r.reread, !.rewritten = r.rewritten]
        /\ op' = name
        /\ advanced' = 1
        /\ UNCHANGED <<panicked, NotFsand>>

FsLive == ~panicked /\ sim_2d = "FallingSand"

FsFrame(spawn, x, dx, rise, ignite) ==
    /\ FsLive
    /\ FsFinishFrame("fs_frame", fsand, spawn, x, dx, rise, ignite)

\* "Brush Size" slider.
FsSetBrushSize(b, spawn, x, dx, rise, ignite) ==
    /\ FsLive
    /\ b /= fsand.brush_size
    /\ FsFinishFrame("fs_set_brush_size", [fsand EXCEPT !.brush_size = b],
                     spawn, x, dx, rise, ignite)

\* One of the material buttons.
FsSetMaterial(i, spawn, x, dx, rise, ignite) ==
    /\ FsLive
    /\ i /= fsand.current_material
    /\ FsFinishFrame("fs_set_material", [fsand EXCEPT !.current_material = i],
                     spawn, x, dx, rise, ignite)

\* "Clear" button.
FsClear(spawn, x, dx, rise, ignite) ==
    /\ FsLive
    /\ FsFinishFrame("fs_clear",
                     [fsand EXCEPT !.grid = [i \in DOMAIN fsand.grid |-> "Empty"],
                                   !.temperatures = [i \in DOMAIN fsand.grid |-> 0]],
                     spawn, x, dx, rise, ignite)

FsandNext ==
    \E spawn \in BOOLEAN, x \in 0..(FsW - 1), dx \in {-1, 1},
       rise \in BOOLEAN, ignite \in BOOLEAN :
        \/ FsFrame(spawn, x, dx, rise, ignite)
        \/ \E b \in FsBrushMin..FsBrushMax : FsSetBrushSize(b, spawn, x, dx, rise, ignite)
        \/ \E i \in FsMaterials : FsSetMaterial(i, spawn, x, dx, rise, ignite)
        \/ FsClear(spawn, x, dx, rise, ignite)

(***************************************************************************)
(* SPH fluid (fluid_sph.rs), one axis of it: the vertical one, on which    *)
(* gravity acts.  Positions, velocities and forces are whole numbers; the  *)
(* smoothing kernel keeps its support (zero from smoothing_radius on) and  *)
(* its sign, not its normalisation.                                        *)
(***************************************************************************)
SphCount == 2          \* particles
SphHalfMin == 1        \* "Boundary Size" slider, as boundary_size / 2
SphHalfMax == 3
SphHalfDefault == 2
SphGravityMax == 1     \* "Gravity" slider 0..=SphGravityMax
SphGravityDefault == 1
SphRest == 4           \* rest_density: the density of a particle on its own
SphGas == 5            \* gas_constant
SphViscosity == 1
SphDampNum == 1        \* damping = SphDampNum / SphDampDen
SphDampDen == 2
SphSpacing == 1        \* init_particles: distance between two rows
SphVelMax == 3         \* the model follows velocities up to this magnitude
SphRadius == 2         \* smoothing_radius
SphMass == 1           \* particle_mass

SphSizes == {2 * b : b \in SphHalfMin..SphHalfMax}

Abs(a) == IF a < 0 THEN -a ELSE a

Sign(a) == IF a < 0 THEN -1 ELSE IF a > 0 THEN 1 ELSE 0

\* a / b of the code's arithmetic, rounded towards zero (b > 0).
Quot(a, b) == IF a >= 0 THEN a \div b ELSE -((-a) \div b)

RECURSIVE SeqSum(_)
SeqSum(s) == IF s = <<>> THEN 0 ELSE Head(s) + SeqSum(Tail(s))

smoothing_kernel(r) ==
    IF r >= SphRadius THEN 0 ELSE SphRadius * SphRadius - r * r

smoothing_kernel_gradient(r) ==
    IF r >= SphRadius THEN 0 ELSE -(SphRadius * SphRadius - r * r)

\* init_particles: rows of particles from the top of the box downwards, at
\* rest.
SphInitParticles(s) ==
    [s EXCEPT !.position = [j \in 1..SphCount |->
                               s.boundary_size \div 2 - (j - 1) * SphSpacing],
              !.velocity = [j \in 1..SphCount |-> 0]]

SphNew ==
    SphInitParticles([boundary_size |-> 2 * SphHalfDefault, gravity |-> SphGravityDefault,
                      position |-> <<>>, velocity |-> <<>>,
                      moved_by |-> 0, clamp |-> {}, reflected |-> 0])

SphInit == sph = SphNew

\* compute_density_pressure: the density of every particle, never below
\* rest_density.
SphDensity(s) ==
    [i \in 1..SphCount |->
        Max(SeqSum([j \in 1..SphCount |->
                LET r == Abs(s.position[j] - s.position[i])
                IN  IF r < SphRadius THEN SphMass * smoothing_kernel(r) ELSE 0]),
            SphRest)]

SphPressure(density) == [i \in 1..SphCount |-> SphGas * (density[i] - SphRest)]

\* compute_forces: pressure and viscosity from every other particle inside
\* the smoothing radius and not at distance 0, and gravity.
compute_forces(s, density, pressure) ==
    [i \in 1..SphCount |->
        LET pair(j) ==
                LET dy == s.position[j] - s.position[i]
                    r == Abs(dy)
                IN  IF i /= j /\ r < SphRadius /\ r > 0
                    THEN LET pressure_term == Quot(pressure[i] + pressure[j], 2 * density[j])
                         IN  [p |-> -(SphMass * pressure_term * smoothing_kernel_gradient(r)
                                      * Sign(dy)),
                              v |-> Quot(SphViscosity * SphMass
                                           * (s.velocity[j] - s.velocity[i]), density[j])
                                    * smoothing_kernel(r)]
                    ELSE [p |-> 0, v |-> 0]
        IN  SeqSum([j \in 1..SphCount |-> pair(j).p])
            + SeqSum([j \in 1..SphCount |-> pair(j).v])
            - s.gravity * density[i]]

\* Boundary conditions with the lower wall only.
SphBoundaryFloorOnly(position, velocity, boundary) ==
    IF position < -boundary
    THEN [position |-> -boundary, velocity |-> -Quot(velocity * SphDampNum, SphDampDen)]
    ELSE [position |-> position, velocity |-> velocity]

\* The boundary conditions of integrate on one axis: a position beyond the
\* wall is put on the wall and the velocity reversed and damped.
SphBoundary(position, velocity, boundary) ==
    IF position < -boundary
    THEN [position |-> -boundary, velocity |-> -Quot(velocity * SphDampNum, SphDampDen)]
    ELSE IF position > boundary
    THEN [position |-> boundary, velocity |-> -Quot(velocity * SphDampNum, SphDampDen)]
    ELSE [position |-> position, velocity |-> velocity]

\* integrate: acceleration from the force, velocity, position, boundary; no
\* limit is applied to the force or to the velocity.  moved_by is the
\* largest speed a position was moved by, clamp the set of limits the step
\* applied to it.
integrate(s, dt) ==
    LET density == SphDensity(s)
        forces == compute_forces(s, density, SphPressure(density))
        vel == [i \in 1..SphCount |-> s.velocity[i] + Quot(forces[i], density[i]) * dt]
        pos == [i \in 1..SphCount |-> s.position[i] + vel[i] * dt]
        out == [i \in 1..SphCount |-> SphBoundary(pos[i], vel[i], s.boundary_size \div 2)]
    IN  [s EXCEPT !.position = [i \in 1..SphCount |-> out[i].position],
                  !.velocity = [i \in 1..SphCount |-> out[i].velocity],
                  !.moved_by = Max(Abs(vel[1]), Abs(vel[SphCount])),
                  !.clamp = {},
                  !.reflected = Cardinality({i \in 1..SphCount : out[i].position /= pos[i]})]

SphLive == ~panicked /\ sim_3d = "FluidSPH"

SphFinish(name, s) ==
    /\ sph' = s
    /\ op' = name
    /\ advanced' = (IF name = "sph_step" THEN 1 ELSE 0)
    /\ UNCHANGED <<panicked, NotSph>>

\* Simulation3D::step(dt).
SphStep(dt) ==
    /\ SphLive
    /\ \E s \in {integrate(sph, dt)} :
           /\ s.moved_by <= SphVelMax
           /\ SphFinish("sph_step", s)

\* "Boundary Size" slider: only the field is written.
SphSetBoundarySize(b) ==
    /\ SphLive
    /\ b /= sph.boundary_size
    /\ SphFinish("sph_set_boundary_size", [sph EXCEPT !.boundary_size = b])

\* "Gravity" slider.
SphSetGravity(g) ==
    /\ SphLive
    /\ g /= sph.gravity
    /\ SphFinish("sph_set_gravity", [sph EXCEPT !.gravity = g])

\* Reset button and Simulation3D::reset(): init_particles.
SphReset ==
    /\ SphLive
    /\ SphFinish("sph_reset", SphInitParticles(sph))

SphNext ==
    \/ \E dt \in Dts : SphStep(dt)
    \/ \E b \in SphSizes : SphSetBoundarySize(b)
    \/ \E g \in 0..SphGravityMax : SphSetGravity(g)
    \/ SphReset

(***************************************************************************)
(* compute(width, height) of the escape-time kernels (mandelbrot.rs; Julia *)
(* and Burning Ship have the same compute) and of the double pendulum      *)
(* (double_pendulum.rs).  The escape-time compute hands one task per row   *)
(* to the thread pool; the tasks finish in any order and collect()         *)
(* assembles the rows.  Complex numbers are pairs in fixed point, EscFP    *)
(* units per 1.0; a colour is a small number, 0 for black.                 *)
(***************************************************************************)
RasterMax == 3       \* largest canvas edge, in pixels; the smallest is 0
EscIterMin == 1      \* "Max Iterations" slider (source: 10..=1000)
EscIterMax == 3
EscIterDefault == 2
EscFP == 4           \* fixed-point units per 1.0
DpRadius == 1        \* radius of the pivot and of the bobs, in pixels (source: 5.0, sqrt(20))
DpLenDen == 2        \* length1 = length2 = 1 / DpLenDen of the canvas (source: 0.2)
EscRange == 4        \* pixel_to_complex: range = 4.0 / zoom
EscRadius == 2       \* escape_radius

RasterEdges == 0..RasterMax

RasterIdle(k) ==
    [kernel |-> k, max_iterations |-> EscIterDefault, phase |-> "idle",
     width |-> 0, height |-> 0, pending |-> {}, rows |-> <<>>, order |-> <<>>,
     buffer |-> <<>>]

RasterInit == \E k \in {"Mandelbrot", "DoublePendulum"} : raster = RasterIdle(k)

\* Mandelbrot::pixel_to_complex at the default centre (-0.5, 0) and zoom 1.
pixel_to_complex(x, y, width, height) ==
    <<Quot(-EscFP, 2) + Quot((2 * x - width) * EscRange * EscFP, 2 * height),
      Quot((2 * y - height) * EscRange * EscFP, 2 * height)>>

\* The loop of Mandelbrot::mandelbrot_iterations from iteration i on.
RECURSIVE EscLoop(_, _, _, _)
EscLoop(z, c, i, max_iterations) ==
    IF i = max_iterations THEN max_iterations
    ELSE IF z[1] * z[1] + z[2] * z[2] > EscRadius * EscRadius * EscFP * EscFP THEN i
    ELSE EscLoop(<<Quot(z[1] * z[1] - z[2] * z[2], EscFP) + c[1],
                   Quot(2 * z[1] * z[2], EscFP) + c[2]>>, c, i + 1, max_iterations)

mandelbrot_iterations(c, max_iterations) == EscLoop(<<0, 0>>, c, 0, max_iterations)

\* Black for a point that did not escape, a colour of the scheme otherwise.
iterations_to_color(iterations, max_iterations) ==
    IF iterations = max_iterations THEN 0 ELSE iterations + 1

\* The closure of one row task: the colours of row y, left to right.
EscRow(y, width, height, max_iterations) ==
    [x \in 1..width |->
        iterations_to_color(
            mandelbrot_iterations(pixel_to_complex(x - 1, y, width, height), max_iterations),
            max_iterations)]

\* The rows joined in the order in which their tasks finished.
RECURSIVE EscCollectByArrival(_, _, _)
EscCollectByArrival(rows, order, y) ==
    IF y > Len(order) THEN <<>>
    ELSE rows[order[y]] \o EscCollectByArrival(rows, order, y + 1)

\* collect() of the parallel iterator: the rows joined by their position in
\* 0..height, whatever the order in which they were produced.
RECURSIVE EscCollect(_, _, _)
EscCollect(rows, order, y) ==
    IF y > Len(order) THEN <<>>
    ELSE rows[y] \o EscCollect(rows, order, y + 1)

RasterLive(k) == ~panicked /\ raster.kernel = k

RasterFinish(name, r) ==
    /\ raster' = r
    /\ op' = name
    /\ advanced' = 0
    /\ UNCHANGED NotRaster

\* "Max Iterations" slider, between two compute calls.
EscSetMaxIterations(v) ==
    /\ RasterLive("Mandelbrot")
    /\ raster.phase /= "running"
    /\ v /= raster.max_iterations
    /\ panicked' = panicked
    /\ RasterFinish("esc_set_max_iterations", [raster EXCEPT !.max_iterations = v])

\* compute(width, height) is entered: one task per row of 0..height.
EscCompute(width, height) ==
    /\ RasterLive("Mandelbrot")
    /\ raster.phase /= "running"
    /\ panicked' = panicked
    /\ RasterFinish("esc_compute",
                    [raster EXCEPT !.phase = "running", !.width = width, !.height = height,
                                   !.pending = 1..height, !.rows = [y \in {} |-> <<>>],
                                   !.order = <<>>, !.buffer = <<>>])

\* One row task runs to its end; row y of the code is row y + 1 here.
EscRowTask(y) ==
    /\ RasterLive("Mandelbrot")
    /\ raster.phase = "running"
    /\ y \in raster.pending
    /\ panicked' = panicked
    /\ RasterFinish("esc_row",
                    [raster EXCEPT !.pending = @ \ {y},
                                   !.rows = [z \in DOMAIN raster.rows \cup {y} |->
                                                IF z = y
                                                THEN EscRow(y - 1, raster.width, raster.height,
                                                            raster.max_iterations)
                                                ELSE raster.rows[z]],
                                   !.order = Append(@, y)])

\* Every task has finished: collect() returns the buffer.
EscReturn ==
    /\ RasterLive("Mandelbrot")
    /\ raster.phase = "running"
    /\ raster.pending = {}
    /\ panicked' = panicked
    /\ RasterFinish("esc_return",
                    [raster EXCEPT !.phase = "returned",
                                   !.buffer = EscCollect(raster.rows, raster.order, 1)])

\* A float converted with "as usize": negative values become 0.
SatUsize(v) == Max(v, 0)

\* The loop of DoublePendulum::draw_line (Bresenham) at (x, y): a pixel is
\* written only inside the canvas.
RECURSIVE DrawLineLoop(_, _, _, _, _, _, _, _, _)
DrawLineLoop(pixels, width, height, x, y, to, delta, err, color) ==
    LET drawn == IF x >= 0 /\ x < width /\ y >= 0 /\ y < height
                 THEN [pixels EXCEPT ![y * width + x + 1] = color]
                 ELSE pixels
        e2 == 2 * err
        stepx == e2 >= delta.dy
        stepy == e2 <= delta.dx
    IN  IF x = to.x /\ y = to.y THEN drawn
        ELSE DrawLineLoop(drawn, width, height,
                          IF stepx THEN x + delta.sx ELSE x,
                          IF stepy THEN y + delta.sy ELSE y,
                          to, delta,
                          err + (IF stepx THEN delta.dy ELSE 0)
                              + (IF stepy THEN delta.dx ELSE 0), color)

draw_line(pixels, width, height, x0, y0, x1, y1, color) ==
    LET dx == Abs(x1 - x0)
        dy == -Abs(y1 - y0)
    IN  DrawLineLoop(pixels, width, height, x0, y0, [x |-> x1, y |-> y1],
                     [dx |-> dx, dy |-> dy, sx |-> IF x0 < x1 THEN 1 ELSE -1,
                      sy |-> IF y0 < y1 THEN 1 ELSE -1], dx + dy, color)

\* The pixels DoublePendulum::draw_circle writes: those of the bounding box,
\* cut to the canvas by min / max and the conversion to usize, that lie
\* within the radius.
DpCirclePixels(width, height, cx, cy, radius) ==
    LET min_x == SatUsize(Max(cx - radius, 0))
        max_x == SatUsize(Min(cx + radius, width - 1))
        min_y == SatUsize(Max(cy - radius, 0))
        max_y == SatUsize(Min(cy + radius, height - 1))
    IN  {q \in (min_x..max_x) \X (min_y..max_y) :
            (q[1] - cx) * (q[1] - cx) + (q[2] - cy) * (q[2] - cy) <= radius * radius}

\* draw_circle: pixels[y * width + x] = color for each of them; oob when an
\* index is past the end of the pixel buffer.
draw_circle(d, width, height, cx, cy, radius, color) ==
    LET hit == {q[2] * width + q[1] + 1 : q \in DpCirclePixels(width, height, cx, cy, radius)}
    IN  [pixels |-> [i \in 1..Len(d.pixels) |-> IF i \in hit THEN color ELSE d.pixels[i]],
         oob |-> d.oob \/ \E i \in hit : i > Len(d.pixels)]

\* DoublePendulum::compute of a new() pendulum (both rods horizontal, no
\* trace yet): the rods, then the pivot and the two bobs.
DpDraw(width, height) ==
    LET cx == width \div 2
        cy == height \div 4
        len == Min(width, height) \div DpLenDen
        blank == [i \in 1..(width * height) |-> 0]
        rod1 == draw_line(blank, width, height, cx, cy, cx + len, cy, 1)
        rod2 == draw_line(rod1, width, height, cx + len, cy, cx + 2 * len, cy, 1)
        pivot == draw_circle([pixels |-> rod2, oob |-> FALSE], width, height, cx, cy,
                             DpRadius, 2)
        bob1 == draw_circle(pivot, width, height, cx + len, cy, DpRadius, 3)
    IN  draw_circle(bob1, width, height, cx + 2 * len, cy, DpRadius, 4)

\* Simulation2D::compute(width, height) of the double pendulum.
DpCompute(width, height) ==
    /\ RasterLive("DoublePendulum")
    /\ \E d \in {DpDraw(width, height)} :
          /\ panicked' = d.oob
          /\ RasterFinish("dp_compute",
                          [raster EXCEPT !.phase = "returned", !.width = width,
                                         !.height = height,
                                         !.buffer = IF d.oob THEN <<>> ELSE d.pixels])

RasterNext ==
    \/ \E v \in EscIterMin..EscIterMax : EscSetMaxIterations(v)
    \/ \E width \in RasterEdges, height \in RasterEdges : EscCompute(width, height)
    \/ \E y \in 1..RasterMax : EscRowTask(y)
    \/ EscReturn
    \/ \E width \in RasterEdges, height \in RasterEdges : DpCompute(width, height)

(***************************************************************************)
(* N-body gravity (nbody_gravity.rs), two axes of it.  Positions and       *)
(* velocities are whole numbers.  A force is an f32: a sum of two forces   *)
(* is rounded to the nearest value the significand can hold (ties to       *)
(* even), as `+=` and `-=` on f32 round.  nbody.last is what the last      *)
(* compute_forces call returned, the pairs it went through in order, and   *)
(* whether any of its sums was rounded.                                    *)
(***************************************************************************)
F32Significand == 8   \* whole numbers below this are exact (source: 2^24)
NbCountMin == 1       \* body_count slider, low end (source: 10)
NbCountMax == 2       \* body_count slider, high end (source: 200)
NbCountDefault == 2   \* default body_count (source: 100)
NbCentralDefault == 8 \* default central_mass (source: 100.0)
NbCentralSolar == 16  \* central_mass of "Solar System" (source: 200.0)
NbSolarCount == 2     \* body_count of "Solar System" (source: 50)
NbStarMass == 4       \* mass of each star of "Binary Stars" (source: 50.0)
NbStarX == 2          \* the stars sit at -x and +x (source: 10.0)
NbStarV == 1          \* the stars move at +v and -v on the second axis (source: 2.0)
NbDebris == 1         \* debris bodies of "Binary Stars" (source: 30)
NbCloud == 2          \* bodies of "Chaotic Cloud" (source: 100)
NbTrailMin == 1       \* trail_length slider, low end (source: 10)
NbTrailMax == 2       \* trail_length slider, high end (source: 200)
NbTrailDefault == 2   \* default trail_length (source: 50)
NbGravity == 4        \* gravitational_constant, in force units per mass^2/distance^2
NbSoftSq == 1         \* softening * softening
NbPosMax == 3         \* the model stops stepping once a body is further out than this
NbVelMax == 2         \* ... or faster than this

\* What thread_rng() can hand init_bodies and the presets for one body.
NbSpawns ==
    { [position |-> <<2, 0>>, velocity |-> <<0, 1>>, mass |-> 1],
      [position |-> <<0, -2>>, velocity |-> <<1, 0>>, mass |-> 1],
      [position |-> <<-1, 1>>, velocity |-> <<0, 0>>, mass |-> 2] }

NbBody(sp) ==
    [position |-> sp.position, velocity |-> sp.velocity, mass |-> sp.mass, trail |-> <<>>]

\* The unit in the last place of the f32 that holds the magnitude a.
RECURSIVE F32Ulp(_)
F32Ulp(a) == IF a < F32Significand THEN 1 ELSE 2 * F32Ulp(a \div 2)

\* The f32 nearest to the real x, ties to even.
F32Round(x) ==
    LET a == Abs(x)
        u == F32Ulp(a)
        q == a \div u
        r == a % u
        up == (2 * r > u) \/ (2 * r = u /\ q % 2 = 1)
    IN  Sign(x) * (IF up THEN q + 1 ELSE q) * u

\* f32::sqrt of a whole number, rounded down.
RECURSIVE ISqrtFrom(_, _)
ISqrtFrom(n, k) == IF (k + 1) * (k + 1) > n THEN k ELSE ISqrtFrom(n, k + 1)

\* The force of body j on body i along both axes (compute_forces, the body
\* of the inner loop down to fx, fy).
NbPairForce(bi, bj) ==
    LET dx == bj.position[1] - bi.position[1]
        dy == bj.position[2] - bi.position[2]
        dist_sq == dx * dx + dy * dy + NbSoftSq
        dist == ISqrtFrom(dist_sq, 0)
        force_mag == Quot(NbGravity * bi.mass * bj.mass, dist_sq)
    IN  <<F32Round(Quot(force_mag * dx, dist)), F32Round(Quot(force_mag * dy, dist))>>

\* A pair force added to both bodies with the same sign.
NbAddPairSameSign(acc, i, j, f) ==
    LET fi == <<acc.forces[i][1] + f[1], acc.forces[i][2] + f[2]>>
        fj == <<acc.forces[j][1] + f[1], acc.forces[j][2] + f[2]>>
    IN  [forces |-> [acc.forces EXCEPT ![i] = <<F32Round(fi[1]), F32Round(fi[2])>>,
                                       ![j] = <<F32Round(fj[1]), F32Round(fj[2])>>],
         pairs |-> Append(acc.pairs, <<i, j>>),
         rounded |-> acc.rounded \/ fi /= <<F32Round(fi[1]), F32Round(fi[2])>>
                                 \/ fj /= <<F32Round(fj[1]), F32Round(fj[2])>>]

\* forces[i] += f; forces[j] -= f, on both axes.
NbAddPair(acc, i, j, f) ==
    LET fi == <<acc.forces[i][1] + f[1], acc.forces[i][2] + f[2]>>
        fj == <<acc.forces[j][1] - f[1], acc.forces[j][2] - f[2]>>
    IN  [forces |-> [acc.forces EXCEPT ![i] = <<F32Round(fi[1]), F32Round(fi[2])>>,
                                       ![j] = <<F32Round(fj[1]), F32Round(fj[2])>>],
         pairs |-> Append(acc.pairs, <<i, j>>),
         rounded |-> acc.rounded \/ fi /= <<F32Round(fi[1]), F32Round(fi[2])>>
                                 \/ fj /= <<F32Round(fj[1]), F32Round(fj[2])>>]

\* for i in 0..len { for j in (i + 1)..len { ... } }, from the pair (i, j) on.
RECURSIVE NbForceLoop(_, _, _, _)
NbForceLoop(bodies, acc, i, j) ==
    IF i > Len(bodies) THEN acc
    ELSE IF j > Len(bodies) THEN NbForceLoop(bodies, acc, i + 1, i + 2)
    ELSE NbForceLoop(bodies, NbAddPair(acc, i, j, NbPairForce(bodies[i], bodies[j])),
                     i, j + 1)

\* NBodyGravity::compute_forces
compute_forces_nbody(bodies) ==
    NbForceLoop(bodies,
                [forces |-> [i \in 1..Len(bodies) |-> <<0, 0>>], pairs |-> <<>>,
                 rounded |-> FALSE],
                1, 2)

\* No body is skipped.
NbMovesAll(i) == TRUE

\* if i == 0 { continue; }: the first body (index 1 here) is skipped.
NbMoves(i) == i /= 1

\* The body of the loop of step for body i: velocity, position, trail.
NbMoveBody(s, forces, i, dt) ==
    LET body == s.bodies[i]
        vx == body.velocity[1] + Quot(forces[i][1], body.mass) * dt
        vy == body.velocity[2] + Quot(forces[i][2], body.mass) * dt
        pos == <<body.position[1] + vx * dt, body.position[2] + vy * dt>>
    IN  [body EXCEPT !.velocity = <<vx, vy>>,
                     !.position = pos,
                     !.trail = IF s.show_trails
                               THEN PushTrail(body.trail, pos, s.trail_length)
                               ELSE @]

\* NBodyGravity::step
step_nbody(s, dt) ==
    LET last == compute_forces_nbody(s.bodies)
    IN  [s EXCEPT !.bodies = [i \in 1..Len(s.bodies) |->
                                 IF NbMoves(i) THEN NbMoveBody(s, last.forces, i, dt)
                                 ELSE s.bodies[i]],
                  !.last = last]

\* NBodyGravity::init_bodies: the central body, then body_count bodies from
\* the random source.
init_bodies(s, spawn) ==
    [s EXCEPT !.bodies =
        <<[position |-> <<0, 0>>, velocity |-> <<0, 0>>, mass |-> s.central_mass,
           trail |-> <<>>]>>
        \o [i \in 1..s.body_count |-> NbBody(spawn[i])]]

NbDefault ==
    [body_count |-> NbCountDefault, central_mass |-> NbCentralDefault,
     trail_length |-> NbTrailDefault, show_trails |-> TRUE, bodies |-> <<>>,
     last |-> [forces |-> <<>>, pairs |-> <<>>, rounded |-> FALSE]]

\* NBodyGravity::new
NbNew(spawn) == init_bodies(NbDefault, spawn)

NbInit == \E spawn \in [1..NbCountDefault -> NbSpawns] : nbody = NbNew(spawn)

NbLive == ~panicked /\ nbody /= [parked |-> TRUE]

NbFinish(name, s) ==
    /\ nbody' = s
    /\ op' = name
    /\ advanced' = IF name = "nbody_step" THEN 1 ELSE 0
    /\ UNCHANGED <<panicked, selVars, viewer, trailVars, ccaVars, sandpile, ant, life,
                   fsand, vortex, perlin, boids, sph, raster, pattr, dla, fractal>>

NbInReach(s) ==
    \A i \in 1..Len(s.bodies) : \A a \in 1..2 :
        /\ Abs(s.bodies[i].position[a]) <= NbPosMax
        /\ Abs(s.bodies[i].velocity[a]) <= NbVelMax

\* Simulation3D::step(dt)
NbStep(dt) ==
    /\ NbLive
    /\ NbInReach(nbody)
    /\ NbFinish("nbody_step", step_nbody(nbody, dt))

\* ui_parameters, "Body Count" slider: only the field is written.
NbSetBodyCount(v) ==
    /\ NbLive
    /\ v /= nbody.body_count
    /\ NbFinish("nbody_set_body_count", [nbody EXCEPT !.body_count = v])

\* ui_parameters, "Show Trails" checkbox.
NbToggleShowTrails ==
    /\ NbLive
    /\ NbFinish("nbody_toggle_show_trails", [nbody EXCEPT !.show_trails = ~@])

\* ui_parameters, "Trail Length" slider (shown while show_trails is set).
NbSetTrailLength(v) ==
    /\ NbLive
    /\ nbody.show_trails
    /\ v /= nbody.trail_length
    /\ NbFinish("nbody_set_trail_length", [nbody EXCEPT !.trail_length = v])

\* ui_parameters, "Solar System".
NbSolarSystem ==
    /\ NbLive
    /\ \E spawn \in [1..NbSolarCount -> NbSpawns] :
           NbFinish("nbody_solar_system",
                    init_bodies([nbody EXCEPT !.central_mass = NbCentralSolar,
                                              !.body_count = NbSolarCount], spawn))

\* ui_parameters, "Binary Stars": two stars, then the debris.
NbBinaryStars ==
    /\ NbLive
    /\ \E spawn \in [1..NbDebris -> NbSpawns] :
           NbFinish("nbody_binary_stars",
                    [nbody EXCEPT !.bodies =
                        <<[position |-> <<-NbStarX, 0>>, velocity |-> <<0, NbStarV>>,
                           mass |-> NbStarMass, trail |-> <<>>],
                          [position |-> <<NbStarX, 0>>, velocity |-> <<0, -NbStarV>>,
                           mass |-> NbStarMass, trail |-> <<>>]>>
                        \o [i \in 1..NbDebris |-> NbBody(spawn[i])]])

\* ui_parameters, "Chaotic Cloud": random bodies only.
NbChaoticCloud ==
    /\ NbLive
    /\ \E spawn \in [1..NbCloud -> NbSpawns] :
           NbFinish("nbody_chaotic_cloud",
                    [nbody EXCEPT !.bodies = [i \in 1..NbCloud |-> NbBody(spawn[i])]])

\* ui_parameters "Reset" and Simulation3D::reset.
NbReset ==
    /\ NbLive
    /\ \E spawn \in [1..nbody.body_count -> NbSpawns] :
           NbFinish("nbody_reset", init_bodies(nbody, spawn))

NbNext ==
    \/ \E dt \in Dts : NbStep(dt)
    \/ \E v \in NbCountMin..NbCountMax : NbSetBodyCount(v)
    \/ NbToggleShowTrails
    \/ \E v \in NbTrailMin..NbTrailMax : NbSetTrailLength(v)
    \/ NbSolarSystem
    \/ NbBinaryStars
    \/ NbChaoticCloud
    \/ NbReset

(***************************************************************************)
(* The view of the zoomable escape-time kernels (mandelbrot.rs,            *)
(* burning_ship.rs).  zoom is an f64 in ticks; a product too large for an  *)
(* f64 is an infinity.  fractal.raw is the product adjust_zoom clamped     *)
(* last.                                                                   *)
(***************************************************************************)
ZoomMin == 1            \* low end of the slider and of the clamp (source: 0.1)
ZoomMax == 8            \* high end of the slider and of the clamp (source: 10000.0)
ZoomMandelbrot == 3     \* Mandelbrot's default zoom (source: 1.0)
ZoomBurningShip == 2    \* Burning Ship's default zoom, also "Main Ship" (source: 0.7)
ZoomFactorOne == 2      \* delta for which delta * 0.001 is 1.0 (source: 1000)
ZoomDeltaMax == 6       \* deltas are -ZoomDeltaMax..ZoomDeltaMax
F64Max == 24            \* magnitudes above this are infinite (source: f64::MAX)

\* The zoom values the "Interesting Locations" buttons write.
ZoomPresets(k) ==
    IF k = "Mandelbrot" THEN {4, 5, 6, 7, 8}     \* 50, 100, 500, 1000, 5000
    ELSE {ZoomBurningShip, 5, 6}                 \* 0.7, 100, 500

ZoomDefault(k) == IF k = "Mandelbrot" THEN ZoomMandelbrot ELSE ZoomBurningShip

\* Infinity: the one value above every finite f64; -F64Inf is the one below.
F64Inf == F64Max + 1

\* An f64 product: infinite once it leaves the range of f64.
F64Mul(a, b) ==
    LET p == a * b
    IN  IF p > F64Max * ZoomFactorOne THEN F64Inf
        ELSE IF p < -(F64Max * ZoomFactorOne) THEN -F64Inf
        ELSE Quot(p, ZoomFactorOne)

\* A clamp that has no upper end.
ZoomClampFromBelow(v) == IF v < ZoomMin THEN ZoomMin ELSE v

\* f64::clamp(0.1, 10000.0)
ZoomClamp(v) ==
    IF v < ZoomMin THEN ZoomMin
    ELSE IF v > ZoomMax THEN ZoomMax
    ELSE v

\* Mandelbrot::adjust_zoom / BurningShip::adjust_zoom
adjust_zoom(s, delta) ==
    LET zoom_factor == ZoomFactorOne + delta
        raw == F64Mul(s.zoom, zoom_factor)
    IN  [s EXCEPT !.zoom = ZoomClamp(raw), !.raw = raw]

FractalNew(k) == [kernel |-> k, zoom |-> ZoomDefault(k), raw |-> ZoomDefault(k)]

FractalInit == \E k \in {"Mandelbrot", "BurningShip"} : fractal = FractalNew(k)

FractalLive == ~panicked /\ fractal /= [parked |-> TRUE]

FractalFinish(name, s) ==
    /\ fractal' = s
    /\ op' = name
    /\ advanced' = 0
    /\ UNCHANGED <<panicked, selVars, viewer, trailVars, ccaVars, sandpile, ant, life,
                   fsand, vortex, perlin, boids, sph, raster, nbody, pattr, dla>>

\* Simulation2D::adjust_zoom(delta)
FractalAdjustZoom(delta) ==
    /\ FractalLive
    /\ FractalFinish("adjust_zoom", adjust_zoom(fractal, delta))

\* ui_parameters, "Zoom" slider.
FractalSetZoom(v) ==
    /\ FractalLive
    /\ v /= fractal.zoom
    /\ FractalFinish("set_zoom", [fractal EXCEPT !.zoom = v])

\* ui_parameters, one of the "Interesting Locations" buttons.
FractalPreset(v) ==
    /\ FractalLive
    /\ v \in ZoomPresets(fractal.kernel)
    /\ FractalFinish("zoom_preset", [fractal EXCEPT !.zoom = v])

\* ui_parameters, "Reset View": *self = Self::default().
FractalResetView ==
    /\ FractalLive
    /\ FractalFinish("reset_view", FractalNew(fractal.kernel))

FractalNext ==
    \/ \E delta \in -ZoomDeltaMax..ZoomDeltaMax : FractalAdjustZoom(delta)
    \/ \E v \in ZoomMin..ZoomMax : FractalSetZoom(v)
    \/ \E v \in ZoomMin..ZoomMax : FractalPreset(v)
    \/ FractalResetView

(***************************************************************************)
(* Particle Lorenz attractor (particle_attractor_3d.rs).  A particle moves *)
(* along the orbit as the ODE attractors do; ages and the spawn            *)
(* accumulator are in ticks.  Every particle carries the number of the     *)
(* spawn_particle call that made it (id), and every trail entry the id of  *)
(* the particle whose position it is: history the code does not keep.      *)
(***************************************************************************)
PaCountMin == 1       \* "Max Particles" slider, low end (source: 10)
PaCountMax == 2       \* "Max Particles" slider, high end (source: 200)
PaCountDefault == 2   \* default num_particles (source: 50)
PaLifetime == 3       \* particle_lifetime, in ticks (source: 10.0)
PaTrailMin == 1       \* "Trail Length" slider, low end (source: 10)
PaTrailMax == 2       \* "Trail Length" slider, high end (source: 200)
PaTrailDefault == 2   \* default trail_length (source: 100)
PaAccOne == 2         \* spawn_accumulator units per 1.0
PaSpawnRate == 1      \* accumulator units gained per tick of dt
PaMaxSpawned == 4     \* the model stops stepping after this many spawns

\* Where spawn_particle can put a particle (the hash of RandomState).
PaSpawnAt == {0, 1}

PaDefault ==
    [num_particles |-> PaCountDefault, particle_lifetime |-> PaLifetime,
     particle_trails |-> TRUE, trail_length |-> PaTrailDefault,
     particles |-> <<>>, particle_trails_data |-> <<>>, spawn_accumulator |-> 0,
     spawned |-> 0]

\* Vec::remove(i), i counted from 1.
RemoveAt(s, i) == SubSeq(s, 1, i - 1) \o SubSeq(s, i + 1, Len(s))

\* ParticleAttractor3D::spawn_particle, the hash putting the particle at p.
spawn_particle(s, p) ==
    [s EXCEPT !.particles = Append(@, [id |-> s.spawned + 1, position |-> p, age |-> 0]),
              !.particle_trails_data = IF s.particle_trails THEN Append(@, <<>>) ELSE @,
              !.spawned = @ + 1]

\* while spawn_accumulator >= 1.0 && particles.len() < num_particles
RECURSIVE PaSpawnLoop(_, _)
PaSpawnLoop(s, at) ==
    IF s.spawn_accumulator >= PaAccOne /\ Len(s.particles) < s.num_particles
    THEN PaSpawnLoop([spawn_particle(s, Head(at)) EXCEPT !.spawn_accumulator = @ - PaAccOne],
                     Tail(at))
    ELSE s

\* The update loop of step from index i (counted from 1) on.
RECURSIVE PaUpdateFrom(_, _, _)
PaUpdateFrom(s, i, dt) ==
    IF i > Len(s.particles) THEN s
    ELSE LET age == s.particles[i].age + dt
         IN  IF age > s.particle_lifetime
             THEN PaUpdateFrom(
                      [s EXCEPT !.particles = RemoveAt(@, i),
                                !.particle_trails_data =
                                    IF s.particle_trails /\ i <= Len(@)
                                    THEN RemoveAt(@, i) ELSE @],
                      i, dt)
             ELSE LET pos == Integrate(s.particles[i].position, dt)
                      entry == [of |-> s.particles[i].id, at |-> pos]
                  IN  PaUpdateFrom(
                          [s EXCEPT !.particles[i].age = age,
                                    !.particles[i].position = pos,
                                    !.particle_trails_data =
                                        IF s.particle_trails /\ i <= Len(@)
                                        THEN [@ EXCEPT ![i] =
                                                 PushTrail(@, entry, s.trail_length)]
                                        ELSE @],
                          i + 1, dt)

\* ParticleAttractor3D::step
step_pattr(s, dt, at) ==
    PaUpdateFrom(PaSpawnLoop([s EXCEPT !.spawn_accumulator = @ + dt * PaSpawnRate], at),
                 1, dt)

PaInit == pattr = PaDefault

PaLive == ~panicked /\ pattr /= [parked |-> TRUE]

PaFinish(name, s) ==
    /\ pattr' = s
    /\ op' = name
    /\ advanced' = IF name = "pattr_step" THEN 1 ELSE 0
    /\ UNCHANGED <<panicked, selVars, viewer, trailVars, ccaVars, sandpile, ant, life,
                   fsand, vortex, perlin, boids, sph, raster, nbody, dla, fractal>>

\* Simulation3D::step(dt)
PaStep(dt) ==
    /\ PaLive
    /\ pattr.spawned < PaMaxSpawned
    /\ pattr.spawn_accumulator < PaAccOne * PaCountMax
    /\ \E at \in [1..PaCountMax -> PaSpawnAt] :
           PaFinish("pattr_step", step_pattr(pattr, dt, at))

\* ui_parameters, "Max Particles" slider: only the field is written.
PaSetNumParticles(v) ==
    /\ PaLive
    /\ v /= pattr.num_particles
    /\ PaFinish("pattr_set_num_particles", [pattr EXCEPT !.num_particles = v])

\* ui_parameters, "Show Trails" checkbox: only the flag is written.
PaToggleTrails ==
    /\ PaLive
    /\ PaFinish("pattr_toggle_trails", [pattr EXCEPT !.particle_trails = ~@])

\* ui_parameters, "Trail Length" slider (shown while particle_trails is set).
PaSetTrailLength(v) ==
    /\ PaLive
    /\ pattr.particle_trails
    /\ v /= pattr.trail_length
    /\ PaFinish("pattr_set_trail_length", [pattr EXCEPT !.trail_length = v])

\* ui_parameters "Reset" and Simulation3D::reset.
PaReset ==
    /\ PaLive
    /\ PaFinish("pattr_reset",
                [pattr EXCEPT !.particles = <<>>, !.particle_trails_data = <<>>,
                              !.spawn_accumulator = 0])

PaNext ==
    \/ \E dt \in Dts : PaStep(dt)
    \/ \E v \in PaCountMin..PaCountMax : PaSetNumParticles(v)
    \/ PaToggleTrails
    \/ \E v \in PaTrailMin..PaTrailMax : PaSetTrailLength(v)
    \/ PaReset

(***************************************************************************)
(* Diffusion-limited aggregation (dla.rs).  grid is a sequence in          *)
(* row-major order, cell (x, y) at index y * grid_width + x + 1; an empty  *)
(* cell (None) is -1, a stuck one holds its age.  The walker of a step     *)
(* call moves from cell to cell; dla.walker is where the call stands: no   *)
(* walker (step has returned), or its cell and the iteration of the walk   *)
(* loop it is about to run.                                                *)
(***************************************************************************)
DlaSize == 5          \* grid_width = grid_height (source: 256)
DlaNumMin == 2        \* "Max Particles" slider, low end (source: 100)
DlaNumMax == 4        \* "Max Particles" slider, high end (source: 10000)
DlaNumDefault == 4    \* default num_particles (source: 5000)
DlaWalkMax == 3       \* iterations of the walk loop (source: 10000)
DlaSpawnMargin == 1   \* spawn radius is max_radius plus this ... (source: 10.0)
DlaSpawnMin == 2      \* ... and at least this (source: 50.0)
DlaRadiusNew == 1     \* max_radius after new() and reset() (source: 1.0)
DlaRadiusSeed == 1    \* max_radius after reset_with_seed (source: 15.0)
DlaLineHalf == 1      \* the line seed spans width/2 - h .. width/2 + h (source: 20)
DlaCrossArm == 2      \* the cross seed runs i over 0..arm (source: 10)
DlaCircleRadius == 1  \* radius of the circle seed (source: 15.0)

DlaNone == -1

\* (cos, sin) of the angles the circle seed goes through, in hundredths
\* (source: 360 angles, one per degree).
DlaCircleDirs ==
    << <<100, 0>>, <<92, 38>>, <<71, 71>>, <<38, 92>>, <<0, 100>>, <<-38, 92>>,
       <<-71, 71>>, <<-92, 38>>, <<-100, 0>>, <<-92, -38>>, <<-71, -71>>,
       <<-38, -92>>, <<0, -100>>, <<38, -92>>, <<71, -71>>, <<92, -38>> >>

\* What one random-walk step can add to the walker's cell on each axis: a
\* move of length 2.0 in any direction.
DlaMoves == ((-2..2) \X (-2..2)) \ {<<0, 0>>}

DlaIdx(x, y, w) == y * w + x + 1

DlaEmptyGrid(w, h) == [i \in 1..(w * h) |-> DlaNone]

DlaOccupied(grid) == {i \in 1..Len(grid) : grid[i] /= DlaNone}

\* Some(0) written to every index of the sequence idxs, in order.
RECURSIVE DlaSeedCells(_, _)
DlaSeedCells(grid, idxs) ==
    IF idxs = <<>> THEN grid
    ELSE DlaSeedCells([grid EXCEPT ![Head(idxs)] = 0], Tail(idxs))

\* DLA::default / new
DlaNew ==
    [grid_width |-> DlaSize, grid_height |-> DlaSize, num_particles |-> DlaNumDefault,
     grid |-> DlaSeedCells(DlaEmptyGrid(DlaSize, DlaSize),
                           <<DlaIdx(DlaSize \div 2, DlaSize \div 2, DlaSize)>>),
     particles_stuck |-> 1, max_radius |-> DlaRadiusNew, paused |-> FALSE,
     walker |-> <<>>]

\* DLA::reset
DlaResetGrid(s) ==
    [s EXCEPT !.grid = DlaSeedCells(DlaEmptyGrid(s.grid_width, s.grid_height),
                                    <<DlaIdx(s.grid_width \div 2, s.grid_height \div 2,
                                             s.grid_width)>>),
              !.particles_stuck = 1,
              !.max_radius = DlaRadiusNew,
              !.paused = FALSE]

\* The cells the line seed writes.
DlaLineCells(s) ==
    LET cy == s.grid_height \div 2
        x0 == s.grid_width \div 2 - DlaLineHalf
    IN  [k \in 1..(2 * DlaLineHalf) |-> DlaIdx(x0 + k - 1, cy, s.grid_width)]

\* The cells the cross seed writes: four per i, in the order of the loop.
DlaCrossCells(s) ==
    LET cx == s.grid_width \div 2
        cy == s.grid_height \div 2
    IN  [k \in 1..(4 * DlaCrossArm) |->
            LET i == (k - 1) \div 4
                arm == (k - 1) % 4
            IN  CASE arm = 0 -> DlaIdx(cx - i, cy, s.grid_width)
                  [] arm = 1 -> DlaIdx(cx + i, cy, s.grid_width)
                  [] arm = 2 -> DlaIdx(cx, cy - i, s.grid_width)
                  [] OTHER -> DlaIdx(cx, cy + i, s.grid_width)]

\* The cell of the circle seed at the k-th angle: (cx + radius * cos) as
\* usize, (cy + radius * sin) as usize, with cx = width / 2.0.
DlaCirclePoint(s, k) ==
    <<SatUsize(Quot(s.grid_width * 50 + DlaCircleRadius * DlaCircleDirs[k][1], 100)),
      SatUsize(Quot(s.grid_height * 50 + DlaCircleRadius * DlaCircleDirs[k][2], 100))>>

\* The cells the circle seed writes: those of its points that lie in the grid.
RECURSIVE DlaCircleCells(_, _)
DlaCircleCells(s, k) ==
    IF k > Len(DlaCircleDirs) THEN <<>>
    ELSE LET p == DlaCirclePoint(s, k)
         IN  (IF p[1] < s.grid_width /\ p[2] < s.grid_height
              THEN <<DlaIdx(p[1], p[2], s.grid_width)>> ELSE <<>>)
             \o DlaCircleCells(s, k + 1)

\* DLA::reset_with_seed
reset_with_seed(s, seed) ==
    LET cleared == DlaEmptyGrid(s.grid_width, s.grid_height)
        seeded ==
            CASE seed = "line" ->
                   [grid |-> DlaSeedCells(cleared, DlaLineCells(s)),
                    stuck |-> 2 * DlaLineHalf]
              [] seed = "cross" ->
                   [grid |-> DlaSeedCells(cleared, DlaCrossCells(s)),
                    stuck |-> 4 * DlaCrossArm]
              [] seed = "circle" ->
                   [grid |-> DlaSeedCells(cleared, DlaCircleCells(s, 1)),
                    stuck |-> Len(DlaCircleDirs)]
              [] OTHER ->
                   [grid |-> DlaSeedCells(cleared,
                                          <<DlaIdx(s.grid_width \div 2, s.grid_height \div 2,
                                                   s.grid_width)>>),
                    stuck |-> 1]
    IN  [s EXCEPT !.grid = seeded.grid,
                  !.particles_stuck = seeded.stuck,
                  !.max_radius = DlaRadiusSeed,
                  !.paused = FALSE]

\* (max_radius + 10.0).max(50.0)
DlaSpawnRadius(s) == Max(s.max_radius + DlaSpawnMargin, DlaSpawnMin)

\* The distance of cell (x, y) from the centre.
DlaDist(s, x, y) ==
    LET dx == x - s.grid_width \div 2
        dy == y - s.grid_height \div 2
    IN  ISqrtFrom(dx * dx + dy * dy, 0)

\* The cells on the spawn circle.
DlaSpawnCells(s) ==
    LET r == DlaSpawnRadius(s)
        cx == s.grid_width \div 2
        cy == s.grid_height \div 2
    IN  {p \in ((cx - r)..(cx + r)) \X ((cy - r)..(cy + r)) : DlaDist(s, p[1], p[2]) = r}

\* One of the 8 neighbours of the interior cell (ix, iy) is stuck.
DlaTouches(s, ix, iy) ==
    \E dx \in -1..1, dy \in -1..1 :
        /\ <<dx, dy>> /= <<0, 0>>
        /\ s.grid[DlaIdx(ix + dx, iy + dy, s.grid_width)] /= DlaNone

\* step, "Stick here": the cell takes the counter as its age, the counter
\* goes up, the call returns.
DlaStick(s, ix, iy) ==
    [s EXCEPT !.grid[DlaIdx(ix, iy, s.grid_width)] = s.particles_stuck,
              !.particles_stuck = @ + 1,
              !.max_radius = Max(@, DlaDist(s, ix, iy)),
              !.walker = <<>>]

\* One iteration of the walk loop of step: the escape test, the stick test
\* (sticks: the outcome of rng.gen() < stickiness), the random-walk move and
\* the clamp.
DlaWalkOnce(s, move, sticks) ==
    LET x == s.walker[1]
        y == s.walker[2]
        ix == SatUsize(x)
        iy == SatUsize(y)
        inside == ix > 0 /\ ix < s.grid_width - 1 /\ iy > 0 /\ iy < s.grid_height - 1
    IN  IF DlaDist(s, x, y) > 2 * DlaSpawnRadius(s) THEN [s EXCEPT !.walker = <<>>]
        ELSE IF inside /\ DlaTouches(s, ix, iy) /\ sticks THEN DlaStick(s, ix, iy)
        ELSE IF s.walker[3] + 1 >= DlaWalkMax THEN [s EXCEPT !.walker = <<>>]
        ELSE [s EXCEPT !.walker =
                 <<Min(Max(x + move[1], 1), s.grid_width - 2),
                   Min(Max(y + move[2], 1), s.grid_height - 2),
                   s.walker[3] + 1>>]

DlaInit == dla = DlaNew

DlaLive == ~panicked /\ dla /= [parked |-> TRUE]

DlaFinish(name, s) ==
    /\ dla' = s
    /\ op' = name
    /\ advanced' = 0
    /\ UNCHANGED <<panicked, selVars, viewer, trailVars, ccaVars, sandpile, ant, life,
                   fsand, vortex, perlin, boids, sph, raster, nbody, pattr, fractal>>

\* DLA::step, from the call to the start of the walk: the early return, the
\* spawn on the circle.
DlaStepBegin(at) ==
    /\ DlaLive
    /\ dla.walker = <<>>
    /\ ~dla.paused
    /\ dla.particles_stuck < dla.num_particles
    /\ at \in DlaSpawnCells(dla)
    /\ DlaFinish("dla_spawn", [dla EXCEPT !.walker = <<at[1], at[2], 0>>])

\* DLA::step, one iteration of the walk loop.
DlaWalk(move, sticks) ==
    /\ DlaLive
    /\ dla.walker /= <<>>
    /\ \E r \in {DlaWalkOnce(dla, move, sticks)} :
           DlaFinish(IF r.particles_stuck /= dla.particles_stuck THEN "dla_stick"
                     ELSE "dla_walk", r)

\* ui_parameters, "Max Particles" slider.
DlaSetNumParticles(v) ==
    /\ DlaLive
    /\ dla.walker = <<>>
    /\ v /= dla.num_particles
    /\ DlaFinish("dla_set_num_particles", [dla EXCEPT !.num_particles = v])

\* ui_parameters, Pause / Resume.
DlaTogglePause ==
    /\ DlaLive
    /\ dla.walker = <<>>
    /\ DlaFinish("dla_toggle_pause", [dla EXCEPT !.paused = ~@])

\* ui_parameters, "Point" and "Reset".
DlaReset ==
    /\ DlaLive
    /\ dla.walker = <<>>
    /\ DlaFinish("dla_reset", DlaResetGrid(dla))

\* ui_parameters, "Line", "Cross", "Circle".
DlaSeed(seed) ==
    /\ DlaLive
    /\ dla.walker = <<>>
    /\ DlaFinish("dla_seed_" \o seed, reset_with_seed(dla, seed))

DlaNext ==
    \/ \E at \in (-DlaSize..(2 * DlaSize)) \X (-DlaSize..(2 * DlaSize)) : DlaStepBegin(at)
    \/ \E move \in DlaMoves, sticks \in BOOLEAN : DlaWalk(move, sticks)
    \/ \E v \in DlaNumMin..DlaNumMax : DlaSetNumParticles(v)
    \/ DlaTogglePause
    \/ DlaReset
    \/ \E seed \in {"line", "cross", "circle"} : DlaSeed(seed)

(***************************************************************************)
(* The host frame (sim-app/src/lib.rs, ComplexSystemsApp::update) with one *)
(* 2D automaton and the Lorenz attractor loaded.  The side panel runs the  *)
(* visible kernel's ui_parameters; the central panel shows the 2D viewer,  *)
(* or steps the 3D kernel once and shows it.                               *)
(***************************************************************************)
HostOps == {"update", "update_life_pause", "update_life_step"}

ViewWidthNew == 2    \* Viewer2D::new(): width (source: 800)
ViewHeightNew == 1   \* Viewer2D::new(): height (source: 600)
ViewEdgeMax == 2     \* largest width and height the panel asks for, in pixels

\* The target sizes (available size times scale, as usize) show is called with.
ViewSizes == (1..ViewEdgeMax) \X (1..ViewEdgeMax)

\* Viewer2D::new
ViewerNew ==
    [needs_update |-> TRUE, computes |-> 0, width |-> ViewWidthNew,
     height |-> ViewHeightNew, asked |-> <<ViewWidthNew, ViewHeightNew>>]

\* A show that looks at needs_update alone.
ViewerShowOnFlagOnly(v, width, height) ==
    IF v.needs_update
    THEN [needs_update |-> FALSE, computes |-> 1, width |-> width, height |-> height,
          asked |-> <<width, height>>]
    ELSE [v EXCEPT !.computes = 0, !.asked = <<width, height>>]

\* Viewer2D::show for the target size (width, height): compute runs when
\* needs_update is set or the size differs from the stored one; the size is
\* stored and needs_update cleared.  computes counts the compute calls of
\* this show, asked is the size it was called with.
ViewerShow(v, width, height) ==
    IF v.needs_update \/ width /= v.width \/ height /= v.height
    THEN [needs_update |-> FALSE, computes |-> 1, width |-> width, height |-> height,
          asked |-> <<width, height>>]
    ELSE [v EXCEPT !.computes = 0, !.asked = <<width, height>>]

\* `if ...ui_parameters(ui) { self.viewer_2d.needs_update = true; }`
HostNote(v, changed) == [v EXCEPT !.needs_update = @ \/ changed]

\* The TwoD arm of the side panel for Langton's Ant, no widget used, then the
\* viewer.
HostAntPanel(dt, size) ==
    \E r \in {AntAutoStep(ant, dt)} :
        /\ r.ant.step_count <= MaxAntSteps
        /\ ant' = r.ant
        /\ advanced' = r.steps
        /\ viewer' = ViewerShow(HostNote(viewer, r.steps > 0), size[1], size[2])
        /\ UNCHANGED life

\* The TwoD arm of the side panel for Game of Life: the widget used ("none",
\* "pause" or "step"), auto-stepping, then the viewer.
HostLifePanel(widget, dt, size) ==
    \E l \in {IF widget = "pause" THEN [life EXCEPT !.paused = ~life.paused]
              ELSE IF widget = "step" THEN LifeStep(life) ELSE life} :
    \E r \in {LifeAutoStep(l, dt)} :
        /\ r.life.generation <= MaxGeneration
        /\ life' = r.life
        /\ advanced' = (IF widget = "step" THEN 1 ELSE 0) + r.steps
        /\ viewer' = ViewerShow(HostNote(viewer, widget = "step" \/ r.steps > 0),
                                 size[1], size[2])
        /\ UNCHANGED ant

\* ComplexSystemsApp::update, one call.  click is the view-mode button
\* pressed in this frame ("none": neither), widget the kernel widget used,
\* size the target size of the 2D viewer.
HostUpdate(click, widget, dt, size) ==
    /\ ~panicked
    /\ sim_type' = (IF click = "none" THEN sim_type ELSE click)
    /\ IF sim_type' = "TwoD"
       THEN /\ IF sim_2d = "LangtonsAnt"
               THEN widget = "none" /\ HostAntPanel(dt, size)
               ELSE HostLifePanel(widget, dt, size)
            /\ UNCHANGED <<current, points, trail_log, twin>>
       ELSE /\ widget = "none"
            /\ size = viewer.asked
            /\ \E r \in {RkStep(current[1], points[1], dt, trail_length)} :
                   /\ current' = <<r.current>>
                   /\ points' = <<r.points>>
            /\ trail_log' = LogOf(OdePushes(sim_3d, current[1], trail_log.pushed, dt),
                                  trail_log.cap_held)
            /\ advanced' = 1
            /\ UNCHANGED <<ant, life, viewer, twin>>
    /\ op' = (IF widget = "none" THEN "update" ELSE "update_life_" \o widget)
    /\ UNCHANGED <<panicked, overflow_checks, sim_2d, sim_3d, time, trail_length,
                   show_trails, ccaVars, sandpile, fsand, vortex, perlin, boids, sph, raster,
                   nbody, pattr, dla, fractal>>

HostNext ==
    \E click \in {"none", "TwoD", "ThreeD"}, widget \in {"none", "pause", "step"},
       dt \in Dts, size \in ViewSizes : HostUpdate(click, widget, dt, size)

(***************************************************************************)
(* Specifications                                                          *)
(***************************************************************************)
\* The value of the record of a kernel the specification at hand does not run.
Parked == [parked |-> TRUE]

TrailParked ==
    /\ current = <<>>
    /\ points = <<>>
    /\ time = 0
    /\ trail_length = 0
    /\ show_trails = FALSE
    /\ trail_log = LogOf(<<>>, TRUE)
    /\ twin = TwinIdle

HostInit(type) ==
    /\ op = "new"
    /\ panicked = FALSE
    /\ advanced = 0
    /\ sim_type = type
    /\ viewer = ViewerNew

\* Point-cloud kernels with a trail, one at a time.
TrailSpecInit ==
    /\ HostInit("ThreeD")
    /\ overflow_checks = TRUE
    /\ sim_2d = "none"
    /\ TrailInit
    /\ twin = TwinIdle
    /\ CcaParked
    /\ sandpile = Parked /\ ant = Parked /\ life = Parked /\ fsand = Parked
    /\ vortex = Parked /\ perlin = Parked /\ boids = Parked /\ sph = Parked /\ raster = Parked
    /\ nbody = Parked /\ pattr = Parked /\ dla = Parked /\ fractal = Parked

SpecTrail == TrailSpecInit /\ [][TrailNext]_vars

\* Two identically built instances of one ODE attractor, the second replaying
\* the calls made on the first.
TwinSpecInit ==
    /\ HostInit("ThreeD")
    /\ overflow_checks = TRUE
    /\ sim_2d = "none"
    /\ TrailInit
    /\ sim_3d \in OdeKernels
    /\ twin = TwinNew(sim_3d)
    /\ CcaParked
    /\ sandpile = Parked /\ ant = Parked /\ life = Parked /\ fsand = Parked
    /\ vortex = Parked /\ perlin = Parked /\ boids = Parked /\ sph = Parked /\ raster = Parked
    /\ nbody = Parked /\ pattr = Parked /\ dla = Parked /\ fractal = Parked

SpecTwin == TwinSpecInit /\ [][TwinNext]_vars

\* The grid automata whose dimensions the host can change, one at a time.
GridInit ==
    /\ HostInit("TwoD")
    /\ overflow_checks \in BOOLEAN
    /\ sim_2d \in {"CyclicCA", "Sandpile", "LangtonsAnt"}
    /\ sim_3d = "none"
    /\ TrailParked
    /\ IF sim_2d = "CyclicCA" THEN CcaInit ELSE CcaParked
    /\ IF sim_2d = "Sandpile" THEN SandpileInit ELSE sandpile = Parked
    /\ IF sim_2d = "LangtonsAnt" THEN AntInit ELSE ant = Parked
    /\ life = Parked /\ fsand = Parked
    /\ vortex = Parked /\ perlin = Parked /\ boids = Parked /\ sph = Parked /\ raster = Parked
    /\ nbody = Parked /\ pattr = Parked /\ dla = Parked /\ fractal = Parked

GridNext == CcaGridNext \/ SandpileNext \/ AntNext

SpecGrid == GridInit /\ [][GridNext]_vars

\* The sandpile at its default size.  A sweep of the avalanche loop that is
\* due is eventually run: the loop is ordinary sequential code.
SandpileRunInit ==
    /\ HostInit("TwoD")
    /\ overflow_checks \in BOOLEAN
    /\ sim_2d = "Sandpile"
    /\ sim_3d = "none"
    /\ TrailParked
    /\ CcaParked
    /\ SandpileInit
    /\ ant = Parked /\ life = Parked /\ fsand = Parked
    /\ vortex = Parked /\ perlin = Parked /\ boids = Parked /\ sph = Parked /\ raster = Parked
    /\ nbody = Parked /\ pattr = Parked /\ dla = Parked /\ fractal = Parked

SandpileRunNext ==
    \/ \E dt \in Dts : SpFrame(dt)
    \/ \E v \in SpCmMin..SpCmMax, dt \in Dts : SpSetCriticalMass(v, dt)
    \/ SpSweep
    \/ SpLoop

SpecSandpile == SandpileRunInit /\ [][SandpileRunNext]_vars /\ WF_vars(SpSweep)

\* The automata that advance by generations, one at a time, at their default
\* sizes.
GenInit ==
    /\ HostInit("TwoD")
    /\ overflow_checks = TRUE
    /\ sim_2d \in {"CyclicCA", "GameOfLife"}
    /\ sim_3d = "none"
    /\ TrailParked
    /\ IF sim_2d = "CyclicCA" THEN CcaInit ELSE CcaParked
    /\ IF sim_2d = "GameOfLife" THEN LifeInit ELSE life = Parked
    /\ sandpile = Parked /\ ant = Parked /\ fsand = Parked
    /\ vortex = Parked /\ perlin = Parked /\ boids = Parked /\ sph = Parked /\ raster = Parked
    /\ nbody = Parked /\ pattr = Parked /\ dla = Parked /\ fractal = Parked

GenNext == CcaGenNext \/ LifeNext

SpecGen == GenInit /\ [][GenNext]_vars

\* The kernels that sample host-adjustable random ranges, one at a time.
RandomInit ==
    /\ \E k \in {"VortexTurbulence", "PerlinFlow", "Boids"} :
           /\ HostInit(IF k = "VortexTurbulence" THEN "ThreeD" ELSE "TwoD")
           /\ sim_3d = (IF k = "VortexTurbulence" THEN k ELSE "none")
           /\ sim_2d = (IF k = "VortexTurbulence" THEN "none" ELSE k)
    /\ overflow_checks = TRUE
    /\ TrailParked
    /\ CcaParked
    /\ sandpile = Parked /\ ant = Parked /\ life = Parked /\ fsand = Parked
    /\ IF sim_3d = "VortexTurbulence" THEN VortexInit ELSE vortex = Parked
    /\ IF sim_2d = "PerlinFlow" THEN PerlinInit ELSE perlin = Parked
    /\ IF sim_2d = "Boids" THEN BoidsInit ELSE boids = Parked
    /\ sph = Parked /\ raster = Parked
    /\ nbody = Parked /\ pattr = Parked /\ dla = Parked /\ fractal = Parked

RandomNext == VortexNext \/ PerlinNext \/ BoidsNext

SpecRandom == RandomInit /\ [][RandomNext]_vars

\* Falling sand.
SandInit ==
    /\ HostInit("TwoD")
    /\ overflow_checks = TRUE
    /\ sim_2d = "FallingSand"
    /\ sim_3d = "none"
    /\ TrailParked
    /\ CcaParked
    /\ sandpile = Parked /\ ant = Parked /\ life = Parked
    /\ FsandInit
    /\ vortex = Parked /\ perlin = Parked /\ boids = Parked /\ sph = Parked /\ raster = Parked
    /\ nbody = Parked /\ pattr = Parked /\ dla = Parked /\ fractal = Parked

SpecSand == SandInit /\ [][FsandNext]_vars

\* The SPH fluid.
FieldInit ==
    /\ HostInit("ThreeD")
    /\ overflow_checks = TRUE
    /\ sim_2d = "none"
    /\ sim_3d = "FluidSPH"
    /\ TrailParked
    /\ CcaParked
    /\ sandpile = Parked /\ ant = Parked /\ life = Parked /\ fsand = Parked
    /\ vortex = Parked /\ perlin = Parked /\ boids = Parked
    /\ SphInit
    /\ raster = Parked
    /\ nbody = Parked /\ pattr = Parked /\ dla = Parked /\ fractal = Parked

SpecField == FieldInit /\ [][SphNext]_vars

\* The compute calls of the escape-time kernel and of the double pendulum.
RasterSpecInit ==
    /\ HostInit("TwoD")
    /\ overflow_checks = TRUE
    /\ sim_2d = "none"
    /\ sim_3d = "none"
    /\ TrailParked
    /\ CcaParked
    /\ sandpile = Parked /\ ant = Parked /\ life = Parked /\ fsand = Parked
    /\ vortex = Parked /\ perlin = Parked /\ boids = Parked /\ sph = Parked
    /\ nbody = Parked /\ pattr = Parked /\ dla = Parked /\ fractal = Parked
    /\ RasterInit

SpecRaster == RasterSpecInit /\ [][RasterNext]_vars

\* The host with a 2D automaton and the Lorenz attractor loaded; the 2D view
\* is the one shown first.
HostSpecInit ==
    /\ HostInit("TwoD")
    /\ overflow_checks = TRUE
    /\ sim_2d \in {"LangtonsAnt", "GameOfLife"}
    /\ sim_3d = "Lorenz"
    /\ current = NewState("Lorenz").current
    /\ points = NewState("Lorenz").points
    /\ time = NewState("Lorenz").time
    /\ trail_length = DefaultCap
    /\ show_trails = TRUE
    /\ trail_log = LogOf(NewState("Lorenz").points[1], TRUE)
    /\ twin = TwinIdle
    /\ CcaParked
    /\ IF sim_2d = "LangtonsAnt" THEN AntInit ELSE ant = Parked
    /\ IF sim_2d = "GameOfLife" THEN LifeInit ELSE life = Parked
    /\ sandpile = Parked /\ fsand = Parked
    /\ vortex = Parked /\ perlin = Parked /\ boids = Parked /\ sph = Parked /\ raster = Parked
    /\ nbody = Parked /\ pattr = Parked /\ dla = Parked /\ fractal = Parked

SpecHost == HostSpecInit /\ [][HostNext]_vars

\* N-body gravity.
BodiesInit ==
    /\ HostInit("ThreeD")
    /\ overflow_checks = TRUE
    /\ sim_2d = "none"
    /\ sim_3d = "NBodyGravity"
    /\ TrailParked
    /\ CcaParked
    /\ sandpile = Parked /\ ant = Parked /\ life = Parked /\ fsand = Parked
    /\ vortex = Parked /\ perlin = Parked /\ boids = Parked /\ sph = Parked /\ raster = Parked
    /\ NbInit
    /\ pattr = Parked /\ dla = Parked /\ fractal = Parked

SpecBodies == BodiesInit /\ [][NbNext]_vars

\* The view of a zoomable escape-time kernel.
ViewInit ==
    /\ HostInit("TwoD")
    /\ overflow_checks = TRUE
    /\ sim_2d \in {"Mandelbrot", "BurningShip"}
    /\ sim_3d = "none"
    /\ TrailParked
    /\ CcaParked
    /\ sandpile = Parked /\ ant = Parked /\ life = Parked /\ fsand = Parked
    /\ vortex = Parked /\ perlin = Parked /\ boids = Parked /\ sph = Parked /\ raster = Parked
    /\ nbody = Parked /\ pattr = Parked /\ dla = Parked
    /\ fractal = FractalNew(sim_2d)

SpecView == ViewInit /\ [][FractalNext]_vars

\* The particle Lorenz attractor.
ParticlesInit ==
    /\ HostInit("ThreeD")
    /\ overflow_checks = TRUE
    /\ sim_2d = "none"
    /\ sim_3d = "ParticleAttractor3D"
    /\ TrailParked
    /\ CcaParked
    /\ sandpile = Parked /\ ant = Parked /\ life = Parked /\ fsand = Parked
    /\ vortex = Parked /\ perlin = Parked /\ boids = Parked /\ sph = Parked /\ raster = Parked
    /\ nbody = Parked
    /\ PaInit
    /\ dla = Parked /\ fractal = Parked

SpecParticles == ParticlesInit /\ [][PaNext]_vars

\* Diffusion-limited aggregation.
AggregateInit ==
    /\ HostInit("TwoD")
    /\ overflow_checks = TRUE
    /\ sim_2d = "DLA"
    /\ sim_3d = "none"
    /\ TrailParked
    /\ CcaParked
    /\ sandpile = Parked /\ ant = Parked /\ life = Parked /\ fsand = Parked
    /\ vortex = Parked /\ perlin = Parked /\ boids = Parked /\ sph = Parked /\ raster = Parked
    /\ nbody = Parked /\ pattr = Parked
    /\ DlaInit
    /\ fractal = Parked

SpecAggregate == AggregateInit /\ [][DlaNext]_vars

(***************************************************************************)
(* Properties                                                              *)
(***************************************************************************)

\* C1: after every step call the trail of every body is no longer than the
\* current trail cap, whatever slider value the host wrote to the cap
\* before the call.
C1_TrailWithinCap ==
    op = "step" => \A i \in DOMAIN points : Len(points[i]) <= trail_length

\* C2: in every state a handler of a resizable grid automaton has returned
\* to (so whenever step or compute runs next), the grid holds exactly
\* grid_width * grid_height cells, also after the host has changed a
\* dimension and the kernel's reset has run.
C2_GridLenMatchesDims ==
    /\ sim_2d = "CyclicCA" => Len(cca_grid) = cca_grid_width * cca_grid_height
    /\ sim_2d = "Sandpile" =>
          Len(sandpile.grid) = sandpile.grid_width * sandpile.grid_height
    /\ sim_2d = "LangtonsAnt" => Len(ant.grid) = ant.grid_width * ant.grid_height

\* C3: whatever width or height the host has set, no step or compute call of
\* the Cyclic CA aborts on an index out of bounds.
C3_CcaNeverPanics == sim_2d = "CyclicCA" => ~panicked

\* C4: when drop_sand has returned (the grain is added and its avalanche is
\* over) no cell of the grid, boundary ring included, holds critical_mass
\* grains or more.
C4_NoCellAtCriticalMass ==
    (sim_2d = "Sandpile" /\ sandpile.phase = "dropped") =>
        \A i \in DOMAIN sandpile.grid : sandpile.grid[i] < sandpile.critical_mass

\* C5: every avalanche loop that a grain addition starts reaches quiescence:
\* drop_sand returns.
C5_AvalancheTerminates ==
    (sim_2d = "Sandpile" /\ sandpile.phase = "avalanche")
        ~> (sim_2d = "Sandpile" /\ sandpile.phase = "dropped")

\* C6: every random-range sample made by Vortex Turbulence, Perlin Flow and
\* 2D Boids is drawn from a non-empty range, whatever the sliders are set to:
\* no frame of these kernels panics in gen_range.
C6_RangesNeverEmpty ==
    (sim_3d = "VortexTurbulence" \/ sim_2d \in {"PerlinFlow", "Boids"}) => ~panicked

\* One synchronous generation of the Cyclic CA: every cell from the grid g.
CcaGeneration(g, w, h, ns, thr, nb) ==
    [i \in 1..(w * h) |-> CcaCellValue(g, i - 1, w, h, ns, thr, get_offsets(nb))]

RECURSIVE CcaGenerations(_, _, _, _, _, _, _)
CcaGenerations(g, n, w, h, ns, thr, nb) ==
    IF n = 0 THEN g
    ELSE CcaGenerations(CcaGeneration(g, w, h, ns, thr, nb), n - 1, w, h, ns, thr, nb)

\* One synchronous generation of Life: every cell from the cells c.
LifeGeneration(c, w, h, rule) ==
    [i \in 1..(w * h) |->
        should_live(rule, c[i], count_neighbors(c, (i - 1) % w, (i - 1) \div w, w, h))]

RECURSIVE LifeGenerations(_, _, _, _, _)
LifeGenerations(c, n, w, h, rule) ==
    IF n = 0 THEN c ELSE LifeGenerations(LifeGeneration(c, w, h, rule), n - 1, w, h, rule)

\* C7: a frame that makes k step calls on the grid it finds (no reseeding
\* in the frame) leaves the k-th synchronous generation of that grid: every
\* cell of generation n+1 is a function of generation n alone, for the
\* Cyclic CA and for Life.
C7_GenerationFromPrevious ==
    [][/\ op' \in {"cca_frame", "cca_set_threshold", "cca_set_neighborhood"} =>
            SubSeq(cca_grid', 1, cca_grid_width' * cca_grid_height') =
                CcaGenerations(SubSeq(cca_grid, 1, cca_grid_width' * cca_grid_height'),
                               advanced', cca_grid_width', cca_grid_height',
                               cca_num_states', cca_threshold', cca_neighborhood')
       /\ op' \in {"life_frame", "life_toggle_pause", "life_step_button", "life_set_rule"} =>
            life'.cells = LifeGenerations(life.cells, advanced', life'.grid_width,
                                          life'.grid_height, life'.rule)
      ]_vars

\* C7 witness: a Cyclic CA frame has stepped and the new generation differs
\* from the one it was computed from (which the swap left in next_grid).
C7_Witness ==
    /\ op = "cca_frame"
    /\ advanced >= 1
    /\ cca_grid /= cca_next_grid

\* C8: within one physics pass of falling sand no cell update reads, and
\* none moves or writes, a cell that an earlier update of the same pass
\* wrote: the pass works from the grid as it stood at its start.
C8_PassReadsStartGrid ==
    sim_2d = "FallingSand" => (~fsand.reread /\ ~fsand.rewritten)

\* C9: reset() leaves the kernel in the runtime state of a freshly
\* constructed instance: seed position, accumulated time and trail are
\* those new() produced.
C9_ResetEqualsNew ==
    op = "reset" =>
        /\ current = NewState(sim_3d).current
        /\ time = NewState(sim_3d).time
        /\ points = NewState(sim_3d).points

C10_AccumulatorPaces(before, after, speed, steps) ==
    /\ after < AccOne
    /\ \E dt \in Dts : steps * AccOne + after = before + dt * speed

C11_TrailIsLatestPushes ==
    (sim_3d \in OdeKernels /\ trail_log.cap_held) =>
        points[1] = LastN(trail_log.pushed, trail_length)

\* A step call that evicted: more points were pushed than the cap admits.
C11_Witness ==
    /\ sim_3d \in OdeKernels
    /\ op = "step"
    /\ trail_log.cap_held
    /\ Len(trail_log.pushed) > trail_length
    /\ Len(points[1]) = trail_length
    /\ points[1] = LastN(trail_log.pushed, trail_length)

\* C12: after every step of the SPH fluid, whatever the sliders were set to
\* before it (the boundary size included), every particle lies within
\* [-boundary_size/2, +boundary_size/2].
C12_ParticlesInsideBox ==
    op = "sph_step" =>
        \A i \in 1..SphCount :
            /\ sph.position[i] >= -(sph.boundary_size \div 2)
            /\ sph.position[i] <= sph.boundary_size \div 2

\* A step that found a particle beyond a wall of a box the slider had shrunk
\* and put it back on the wall.
C12_Witness ==
    /\ op = "sph_step"
    /\ sph.boundary_size < 2 * SphHalfDefault
    /\ sph.reflected > 0
    /\ \E i \in 1..SphCount : sph.position[i] = sph.boundary_size \div 2

\* C13 as stated: every step of a particle-field kernel limits the speed a
\* particle is moved by to a configured maximum.
C13_SpeedClamped ==
    op = "sph_step" => \E m \in sph.clamp : sph.moved_by <= m

\* C14 as stated: compute(width, height) of every raster kernel returns
\* exactly width * height colours, pixel (x, y) at index y * width + x, and
\* returns the empty buffer without aborting when width or height is 0.
C14_ComputeReturnsBuffer ==
    op \in {"esc_return", "dp_compute"} =>
        /\ ~panicked
        /\ Len(raster.buffer) = raster.width * raster.height
        /\ raster.kernel = "Mandelbrot" =>
              \A x \in 0..(raster.width - 1), y \in 0..(raster.height - 1) :
                  raster.buffer[y * raster.width + x + 1]
                      = EscRow(y, raster.width, raster.height, raster.max_iterations)[x + 1]

\* C19: the buffer the escape-time compute returns is the one the rows give
\* taken in row order, row y at indices y*w .. y*w + w - 1, in whatever
\* order the row tasks finished: a function of the parameters alone.
C19_BufferIndependentOfSchedule ==
    op = "esc_return" =>
        /\ Len(raster.buffer) = raster.width * raster.height
        /\ \A y \in 1..raster.height :
              SubSeq(raster.buffer, (y - 1) * raster.width + 1, y * raster.width)
                  = EscRow(y - 1, raster.width, raster.height, raster.max_iterations)

\* A call whose last row finished first, with rows that differ.
C19_Witness ==
    /\ op = "esc_return"
    /\ raster.height >= 2
    /\ raster.width >= 2
    /\ raster.order[1] = raster.height
    /\ raster.rows[1] /= raster.rows[raster.height]

\* The frames of Life that step the cells they find: no pattern, random
\* fill or clear runs in them.
LifeStepOps == {"life_frame", "life_toggle_pause", "life_step_button", "life_set_rule"}

\* The live cells among ((x+dx) mod w, (y+dy) mod h), over the eight
\* offsets (dx, dy) other than (0, 0), in the cells c.
TorusLiveNeighbours(c, x, y, w, h) ==
    Cardinality({d \in ((-1..1) \X (-1..1)) \ {<<0, 0>>} :
                    c[((y + d[2]) % h) * w + ((x + d[1]) % w) + 1]})

C16_ToroidalNeighbours ==
    [][(op' \in LifeStepOps /\ advanced' = 1) =>
          /\ ~panicked'
          /\ \A x \in 0..(life.grid_width - 1), y \in 0..(life.grid_height - 1) :
                /\ life'.cells[y * life.grid_width + x + 1]
                      = should_live(life'.rule, life.cells[y * life.grid_width + x + 1],
                                    TorusLiveNeighbours(life.cells, x, y, life.grid_width,
                                                        life.grid_height))
                /\ \A dx \in -1..1, dy \in -1..1 :
                      ((y + dy + life.grid_height) % life.grid_height) * life.grid_width
                        + ((x + dx + life.grid_width) % life.grid_width)
                          \in 0..(Len(life.cells) - 1)
      ]_vars

\* A step has run on cells that differ between the first and the last
\* column and between the first and the last row.
C16_Witness ==
    /\ op \in LifeStepOps
    /\ advanced = 1
    /\ life.generation >= 1
    /\ \E y \in 0..(life.grid_height - 1) :
          life.cells[y * life.grid_width + 1] /= life.cells[(y + 1) * life.grid_width]
    /\ \E x \in 0..(life.grid_width - 1) :
          life.cells[x + 1]
              /= life.cells[(life.grid_height - 1) * life.grid_width + x + 1]

\* The offsets of a neighbourhood, as a set: the 4 edge neighbours, the 8
\* neighbours of the 3 x 3 block, or those 8 and the 4 cells two steps away
\* along an axis.
NeighbourhoodCells(nb) ==
    LET block == ((-1..1) \X (-1..1)) \ {<<0, 0>>}
    IN  CASE nb = "VonNeumann" -> {d \in block : d[1] = 0 \/ d[2] = 0}
          [] nb = "Moore" -> block
          [] nb = "Extended" -> block \cup {<<0, -2>>, <<0, 2>>, <<-2, 0>>, <<2, 0>>}

\* C17: one Cyclic CA step takes a cell in state s to (s+1) mod num_states
\* exactly when at least threshold cells of its neighbourhood, taken on the
\* torus, are in state (s+1) mod num_states in the generation the step
\* started from; otherwise the cell keeps s.
C17_CyclicRule ==
    [][(op' \in {"cca_frame", "cca_set_threshold", "cca_set_neighborhood"}
          /\ advanced' = 1 /\ ~panicked') =>
          \A x \in 0..(cca_grid_width - 1), y \in 0..(cca_grid_height - 1) :
              LET s == cca_grid[y * cca_grid_width + x + 1]
                  succ == (s + 1) % cca_num_states'
                  n == Cardinality({d \in NeighbourhoodCells(cca_neighborhood') :
                          cca_grid[((y + d[2]) % cca_grid_height) * cca_grid_width
                                   + ((x + d[1]) % cca_grid_width) + 1] = succ})
              IN  cca_grid'[y * cca_grid_width + x + 1]
                      = IF n >= cca_threshold' THEN succ ELSE s
      ]_vars

\* A step after which one cell has advanced and another has kept its state
\* (the swap left the previous generation in next_grid).
C17_Witness ==
    /\ op = "cca_frame"
    /\ advanced = 1
    /\ \E i, j \in 1..(cca_grid_width * cca_grid_height) :
          /\ cca_grid[i] = (cca_next_grid[i] + 1) % cca_num_states
          /\ cca_grid[j] = cca_next_grid[j]

\* The four headings in clockwise order on the screen (y grows downwards),
\* and the cell each points to.
Headings == <<"Up", "Right", "Down", "Left">>

HeadingAhead == [Up |-> <<0, -1>>, Right |-> <<1, 0>>, Down |-> <<0, 1>>, Left |-> <<-1, 0>>]

\* The heading a quarter turn to the right of d (to the left when ~right).
QuarterTurn(d, right) ==
    LET k == CHOOSE n \in 1..4 : Headings[n] = d
    IN  Headings[((k - 1 + (IF right THEN 1 ELSE 3)) % 4) + 1]

\* The frames of the ant that step the grid they find.
AntStepOps == {"ant_frame", "ant_toggle_wrap"}

\* What every single step does: the cell under the ant, and no other, is
\* flipped.
C18_FlipsCellUnderAnt(a, b) ==
    LET i == a.ant_y * a.grid_width + a.ant_x + 1
    IN  b.grid = [a.grid EXCEPT ![i] = ~a.grid[i]]

\* C18 as stated: a step flips exactly the cell under the ant, turns the
\* ant right on a white cell and left on a black one, and moves it exactly
\* one cell in the new heading, entering from the opposite edge in wrap mode.
C18_StepMovesOneCell ==
    [][(op' \in AntStepOps /\ advanced' = 1) =>
          LET d == QuarterTurn(ant.direction,
                               ant.grid[ant.ant_y * ant.grid_width + ant.ant_x + 1])
              tx == ant.ant_x + HeadingAhead[d][1]
              ty == ant.ant_y + HeadingAhead[d][2]
          IN  /\ C18_FlipsCellUnderAnt(ant, ant')
              /\ ant'.direction = d
              /\ IF ant'.wrap_edges
                 THEN ant'.ant_x = tx % ant.grid_width /\ ant'.ant_y = ty % ant.grid_height
                 ELSE ant'.ant_x = tx /\ ant'.ant_y = ty
      ]_vars

\* C18, amended: a step flips exactly the cell under the ant and turns the
\* ant right on a white cell, left on a black one.  In wrap mode, and in
\* bounce mode away from the wall, the ant then moves one cell in the new
\* heading (in wrap mode entering from the opposite edge).  In bounce mode
\* with the wall ahead the ant stays on its cell and its heading is
\* reversed.
C18_StepFlipsTurnsMoves ==
    [][(op' \in AntStepOps /\ advanced' = 1) =>
          LET d == QuarterTurn(ant.direction,
                               ant.grid[ant.ant_y * ant.grid_width + ant.ant_x + 1])
              tx == ant.ant_x + HeadingAhead[d][1]
              ty == ant.ant_y + HeadingAhead[d][2]
              inside == tx \in 0..(ant.grid_width - 1) /\ ty \in 0..(ant.grid_height - 1)
          IN  /\ C18_FlipsCellUnderAnt(ant, ant')
              /\ IF ant'.wrap_edges
                 THEN /\ ant'.direction = d
                      /\ ant'.ant_x = tx % ant.grid_width
                      /\ ant'.ant_y = ty % ant.grid_height
                 ELSE IF inside
                 THEN ant'.direction = d /\ ant'.ant_x = tx /\ ant'.ant_y = ty
                 ELSE /\ ant'.direction = QuarterTurn(QuarterTurn(d, TRUE), TRUE)
                      /\ ant'.ant_x = ant.ant_x
                      /\ ant'.ant_y = ant.ant_y
      ]_vars

\* A single step in bounce mode that left the ant on an edge cell, heading
\* away from that edge, with a white cell on the grid.
C18_Witness ==
    /\ op \in AntStepOps
    /\ advanced = 1
    /\ ~ant.wrap_edges
    /\ \E i \in 1..Len(ant.grid) : ant.grid[i]
    /\ \/ ant.ant_x = 0 /\ ant.direction = "Right"
       \/ ant.ant_x = ant.grid_width - 1 /\ ant.direction = "Left"
       \/ ant.ant_y = 0 /\ ant.direction = "Down"
       \/ ant.ant_y = ant.grid_height - 1 /\ ant.direction = "Up"

NbForceSum(forces, a) == SeqSum([b \in 1..Len(forces) |-> forces[b][a]])

\* The force on body b along axis a from the pair forces alone: plus the
\* force of every pair (b, j) with b < j, minus that of every pair (i, b).
NbNetForce(bodies, b, a) ==
    SeqSum([k \in 1..Len(bodies) |->
               IF k > b THEN NbPairForce(bodies[b], bodies[k])[a]
               ELSE IF k < b THEN -NbPairForce(bodies[k], bodies[b])[a]
               ELSE 0])

NbUnorderedPairs(n) == {<<i, j>> \in (1..n) \X (1..n) : i < j}

\* C21, as stated: after a step, the forces the step accumulated sum to
\* zero on every axis.
C21_ForcesSumToZero ==
    (nbody /= Parked /\ op = "nbody_step") =>
        \A a \in 1..2 : NbForceSum(nbody.last.forces, a) = 0

\* C21, amended: compute_forces goes through every unordered pair {i, j} of
\* bodies exactly once (i < j), and adds the pair force to body i and its
\* negation to body j.  The totals are f32 sums, rounded as they accumulate:
\* when no accumulation was rounded, each total is the exact signed sum of
\* the body's pair forces and the totals sum to zero on every axis.
C21_PairsOnceAndExactSumsCancel ==
    [][(nbody /= Parked /\ op' = "nbody_step") =>
          LET n == Len(nbody.bodies)
              last == nbody'.last
          IN  /\ Len(last.pairs) = Cardinality(NbUnorderedPairs(n))
              /\ {last.pairs[k] : k \in 1..Len(last.pairs)} = NbUnorderedPairs(n)
              /\ Len(last.forces) = n
              /\ ~last.rounded =>
                     \A a \in 1..2 :
                         /\ NbForceSum(last.forces, a) = 0
                         /\ \A b \in 1..n :
                                last.forces[b][a] = NbNetForce(nbody.bodies, b, a)]_vars

\* C21 witness: a step over three bodies whose accumulations were all exact:
\* three pairs, a non-zero force on every body, and totals that cancel.
C21_Witness ==
    /\ nbody /= Parked
    /\ op = "nbody_step"
    /\ Len(nbody.bodies) = 3
    /\ Len(nbody.last.pairs) = 3
    /\ ~nbody.last.rounded
    /\ \A b \in 1..3 : nbody.last.forces[b] /= <<0, 0>>
    /\ \A a \in 1..2 : NbForceSum(nbody.last.forces, a) = 0

\* C29: a step leaves the first body as it was (position, velocity, trail
\* and mass), whatever force acts on it and whichever preset built the body
\* list, and changes neither the number of bodies, nor any mass, nor
\* body_count.
C29_FirstBodyStaysPut ==
    [][(nbody /= Parked /\ op' = "nbody_step") =>
          /\ nbody'.bodies[1] = nbody.bodies[1]
          /\ Len(nbody'.bodies) = Len(nbody.bodies)
          /\ \A i \in 1..Len(nbody.bodies) : nbody'.bodies[i].mass = nbody.bodies[i].mass
          /\ nbody'.body_count = nbody.body_count
          /\ nbody'.central_mass = nbody.central_mass]_vars

\* C29 witness: after "Binary Stars" a step found a force on the first star,
\* which has a velocity, and left it where the preset put it, while the
\* second star moved and recorded its trail.
C29_Witness ==
    /\ nbody /= Parked
    /\ op = "nbody_step"
    /\ nbody.last.forces[1] /= <<0, 0>>
    /\ nbody.bodies[1].position = <<-NbStarX, 0>>
    /\ nbody.bodies[1].velocity = <<0, NbStarV>>
    /\ nbody.bodies[1].trail = <<>>
    /\ nbody.bodies[2].position /= <<NbStarX, 0>>
    /\ nbody.bodies[2].trail /= <<>>

\* C22: whatever adjust_zoom calls (any finite delta: negative factors, zero,
\* products beyond the range of f64), presets, slider writes and view resets
\* have run, the zoom of the kernel lies within the clamp range.
C22_ZoomWithinRange ==
    fractal /= Parked =>
        /\ ZoomMin <= fractal.zoom
        /\ fractal.zoom <= ZoomMax

\* C22 witness: adjust_zoom has just clamped an infinite product to the
\* upper end.
C22_Witness ==
    /\ fractal /= Parked
    /\ op = "adjust_zoom"
    /\ fractal.raw = F64Inf
    /\ fractal.zoom = ZoomMax

\* C22 witness, lower end: a negative product was clamped to the lower end.
C22_WitnessBelow ==
    /\ fractal /= Parked
    /\ op = "adjust_zoom"
    /\ fractal.raw < 0
    /\ fractal.zoom = ZoomMin

\* C23: while particle_trails is set there is exactly one trail per live
\* particle, and the i-th trail holds positions of the i-th particle only.
C23_OneTrailPerParticle ==
    (pattr /= Parked /\ pattr.particle_trails) =>
        /\ Len(pattr.particle_trails_data) = Len(pattr.particles)
        /\ \A i \in 1..Len(pattr.particle_trails_data) :
               \A k \in 1..Len(pattr.particle_trails_data[i]) :
                   /\ i <= Len(pattr.particles)
                   /\ pattr.particle_trails_data[i][k].of = pattr.particles[i].id

\* C23, the second half alone: with as many trails as particles, a trail
\* still holds positions of its own particle only.
C23_TrailsOfOwnParticle ==
    (/\ pattr /= Parked
     /\ pattr.particle_trails
     /\ Len(pattr.particle_trails_data) = Len(pattr.particles)) =>
        \A i \in 1..Len(pattr.particle_trails_data) :
            \A k \in 1..Len(pattr.particle_trails_data[i]) :
                pattr.particle_trails_data[i][k].of = pattr.particles[i].id

\* C27: after every step the number of live particles is at most the
\* configured maximum.
C27_LiveWithinMaximum ==
    (pattr /= Parked /\ op = "pattr_step") =>
        Len(pattr.particles) <= pattr.num_particles

\* C24: particles_stuck is the number of occupied grid cells.
C24_CounterIsOccupiedCells ==
    dla /= Parked => dla.particles_stuck = Cardinality(DlaOccupied(dla.grid))

\* C24, for step alone: a stick fills a cell that was empty.
C24_StickFillsEmptyCell ==
    [][(dla /= Parked /\ op' = "dla_stick") =>
          Cardinality(DlaOccupied(dla'.grid)) = Cardinality(DlaOccupied(dla.grid)) + 1]_vars

\* C25: after every step each live cell's cell_age is the number of
\* consecutive generations the cell has been alive and each dead cell's age
\* is 0.  A cell cannot have been alive for more generations than the grid
\* has had since it was last cleared, filled with a pattern or randomised
\* (generation + 1 of them, the starting one included), so after a frame
\* that stepped no live cell's age exceeds generation + 1.
C25_AgeIsRunLength ==
    [][(life /= Parked /\ advanced' >= 1) =>
          \A i \in DOMAIN life'.cells :
              IF life'.cells[i] THEN life'.cell_age[i] <= life'.generation + 1
              ELSE life'.cell_age[i] = 0]_vars

\* C25, the pattern buttons alone: add_pattern clears the grid, so after
\* the step that follows it no cell is older than 2.
C25_AgeAfterPattern ==
    [][(life /= Parked /\ op' = "life_glider" /\ advanced' = 1) =>
          \A i \in DOMAIN life'.cells : life'.cell_age[i] <= 2]_vars

\* C26: a sweep of the avalanche loop leaves the number of grains on the
\* grid as it was, whatever critical_mass is: each topple takes from its
\* cell what it gives to the 4 neighbours.
C26_ToppleConservesGrains ==
    [][(sim_2d = "Sandpile" /\ op' = "sp_sweep" /\ ~panicked') =>
          SeqSum(sandpile'.grid) = SeqSum(sandpile.grid)]_vars

\* C26 at the default critical_mass alone.
C26_ToppleConservesAtFour ==
    [][(sim_2d = "Sandpile" /\ op' = "sp_sweep" /\ ~panicked'
            /\ sandpile.critical_mass = 4) =>
          SeqSum(sandpile'.grid) = SeqSum(sandpile.grid)]_vars

\* C28: the ant is on a cell of the grid, 0 <= ant_x < grid_width and
\* 0 <= ant_y < grid_height, after every step and every reset, in wrap and
\* in bounce mode, across toggles of wrap_edges and changes of the grid
\* dimensions; the index the next step uses is inside the grid.
C28_AntInsideGrid ==
    sim_2d = "LangtonsAnt" =>
        /\ ant.ant_x >= 0 /\ ant.ant_x < ant.grid_width
        /\ ant.ant_y >= 0 /\ ant.ant_y < ant.grid_height
        /\ ant.ant_y * ant.grid_width + ant.ant_x < Len(ant.grid)

\* On a grid whose width the slider has changed, a step in wrap mode has
\* taken the ant over the high edge: it stands in column 0 heading right.
C28_Witness ==
    /\ sim_2d = "LangtonsAnt"
    /\ op \in AntStepOps
    /\ advanced >= 1
    /\ ant.wrap_edges
    /\ ant.grid_width /= AntDefaultW
    /\ ant.ant_x = 0
    /\ ant.direction = "Right"

\* A step in bounce mode has kept the ant on the low edge it ran into.
C28_WitnessBounce ==
    /\ sim_2d = "LangtonsAnt"
    /\ op \in AntStepOps
    /\ advanced >= 1
    /\ ~ant.wrap_edges
    /\ ant.ant_y = 0
    /\ ant.direction = "Down"

\* C30: in a frame that shows the 2D viewer, show calls compute exactly when
\* needs_update is set (it was left set, or the selected simulation reported
\* a change in this frame) or the size asked for differs from the stored
\* one; after a compute needs_update is false and the stored size is the
\* one asked for; so a frame in which the simulation reports a change
\* is drawn from a buffer computed in that frame.
C30_ComputeIffStale ==
    [][(op' \in HostOps /\ sim_type' = "TwoD") =>
          LET changed == advanced' > 0
              stale == \/ viewer.needs_update
                       \/ changed
                       \/ viewer'.asked /= <<viewer.width, viewer.height>>
          IN  /\ viewer'.computes = 1 <=> stale
              /\ viewer'.computes = 0 <=> ~stale
              /\ viewer'.computes = 1 =>
                    /\ ~viewer'.needs_update
                    /\ <<viewer'.width, viewer'.height>> = viewer'.asked
              /\ changed => viewer'.computes = 1
      ]_vars

\* A 2D frame in which the simulation stepped and show computed the buffer,
\* at a size other than the one the viewer started with.
C30_Witness ==
    /\ op \in HostOps
    /\ sim_type = "TwoD"
    /\ advanced >= 1
    /\ viewer.computes = 1
    /\ ~viewer.needs_update
    /\ viewer.asked /= <<ViewWidthNew, ViewHeightNew>>

\* A 2D frame in which nothing changed and show drew the buffer it had.
C30_WitnessIdle ==
    /\ op \in HostOps
    /\ sim_type = "TwoD"
    /\ advanced = 0
    /\ viewer.computes = 0

====
